---- MODULE Spec2Model ----
(***************************************************************************)
(* A model of rafty: the per-peer Raft state machine (src/src), the        *)
(* key/value application (src/apps/kvdb) and the simulator that drives a   *)
(* live cluster one action at a time (src/utilities/simulator).            *)
(*                                                                         *)
(* A peer is a record holding the fields of `Peer` together with the       *)
(* fields of its storage (current_term, voted_for, log, snapshot) and of   *)
(* its role.  Every handler of the source is an operator from the peer     *)
(* before the call to the peer after it; every simulator action is one     *)
(* action of the next-state relation and runs the whole handler.           *)
(*                                                                         *)
(* Conventions.                                                            *)
(*  - Option<PeerId>::None is 0 (peer ids start at 1).                     *)
(*  - A panic (unreachable!, unimplemented!, assert_eq!, unwrap) sets the  *)
(*    `panic` field of the peer that hit it; a panicked simulation takes   *)
(*    no further step.                                                     *)
(*  - `applied` is a history field: the (index, command) pairs the peer    *)
(*    handed to machine.apply, in order.  The source does not store it.    *)
(*  - `committed` is a history field: the entries an advance of            *)
(*    commit_index by the peer as Leader covered, each with the term the   *)
(*    peer was in.  The source does not store it.                          *)
(*  - slice::binary_search_by is modelled by the loop of the standard      *)
(*    library (Rust >= 1.82), so that its result on logs holding an index  *)
(*    twice is the one the build produces.                                 *)
(***************************************************************************)
EXTENDS Integers, Sequences, FiniteSets, TLC

VARIABLES
    cluster,        \* Cluster: the set of PeerIds of the simulation
    consistency,    \* Consistency of the simulation: "Strong" | "Eventual"
    peers,          \* Simulation.peers: PeerId -> Peer
    clients,        \* Simulation.clients: ClientId -> Client
    replay_peers,   \* Simulation.replay_peers: PeerId -> Peer, <<>> without checks
    budget          \* what the driver may still do (bounds of the model)

vars == <<cluster, consistency, peers, clients, replay_peers, budget>>

---------------------------------------------------------------------------
(* Bounds of the model.                                                    *)

NumPeers == 3
NumClients == 1
MaxTerm == 3
MaxRequests == 12
MaxLog == 3
MaxCommands == 1
MaxHeartbeats == 2
MaxDrops == 1
MaxStorageFailures == 1
MaxSteps == 7
MaxIds == 2

---------------------------------------------------------------------------
(* Primitives (src/src/primitives.rs).                                     *)

None == 0

\* Faulty variants of Term::next: one that goes back, one that stays.
TermNextDecreasing(term) == term - 1

TermNextStuck(term) == term

TermNext(term) == term + 1

LogIndexNext(index) == index + 1

LogIndexPrevious(index) == index - 1

EmptyMap == [x \in {} |-> 0]

MapInsert(map, key, value) ==
    [k \in DOMAIN map \cup {key} |-> IF k = key THEN value ELSE map[k]]

MapRemove(map, key) == [k \in DOMAIN map \ {key} |-> map[k]]

\* Faulty variant of the iteration over the cluster: greatest peer id first.
GreatestFirst(S) ==
    [i \in 1..Cardinality(S) |->
        CHOOSE x \in S : Cardinality({y \in S : y > x}) = i - 1]

RECURSIVE Ascending(_)
Ascending(S) ==
    IF S = {} THEN <<>>
    ELSE LET least == CHOOSE x \in S : \A y \in S : x <= y
         IN <<least>> \o Ascending(S \ {least})

\* seq without its element at position
RemoveAt(seq, position) ==
    [i \in 1..(Len(seq) - 1) |-> IF i < position THEN seq[i] ELSE seq[i + 1]]

---------------------------------------------------------------------------
(* The key/value application (src/apps/kvdb).                              *)

Keys == {"k"}
Values == {"a", "b"}

\* Faulty variant of Command::no_op: a command that writes.
NoOpWriting == [kind |-> "Upsert", key |-> "k", value |-> "a"]

NoOp == [kind |-> "NoOp", key |-> "", value |-> ""]
Insert(key, value) == [kind |-> "Insert", key |-> key, value |-> value]
Upsert(key, value) == [kind |-> "Upsert", key |-> key, value |-> value]
Clear(key) == [kind |-> "Clear", key |-> key, value |-> ""]

DefaultMachine == EmptyMap

\* Query of the key-value database (src/apps/kvdb/src/query.rs)
Length == [kind |-> "Length", key |-> ""]
Entry(key) == [kind |-> "Entry", key |-> key]

\* Machine::query: the QueryResult; the value None of Entry is ""
MachineQuery(machine, query) ==
    IF query.kind = "Length"
    THEN [kind |-> "Length", length |-> Cardinality(DOMAIN machine), value |-> ""]
    ELSE [kind |-> "Entry", length |-> 0,
          value |-> IF query.key \in DOMAIN machine THEN machine[query.key] ELSE ""]

\* Machine::apply: the machine after the command
MachineApply(machine, command) ==
    CASE command.kind = "NoOp" -> machine
      [] command.kind = "Insert" ->
            IF command.key \in DOMAIN machine THEN machine
            ELSE MapInsert(machine, command.key, command.value)
      [] command.kind = "Upsert" -> MapInsert(machine, command.key, command.value)
      [] command.kind = "Clear" -> MapRemove(machine, command.key)

---------------------------------------------------------------------------
(* Log and snapshot (src/src/log.rs, src/src/snapshot.rs).                 *)

LogEntry(index, term, command) == [index |-> index, term |-> term, command |-> command]

DefaultSnapshot ==
    [last_included_index |-> 0, last_included_term |-> 0, machine |-> DefaultMachine]

\* The loop of slice::binary_search_by over 0-based positions base..base+size-1.
RECURSIVE BinarySearchBase(_, _, _, _)
BinarySearchBase(log, index, base, size) ==
    IF size > 1
    THEN LET half == size \div 2
             mid == base + half
         IN BinarySearchBase(log, index,
                             IF log[mid + 1].index > index THEN base ELSE mid,
                             size - half)
    ELSE base

\* log.binary_search_by(|entry| entry.index().cmp(&index)): the 1-based position
\* of the entry found, 0 for Err(_)
BinarySearch(log, index) ==
    IF Len(log) = 0 THEN 0
    ELSE LET base == BinarySearchBase(log, index, 0, Len(log))
         IN IF log[base + 1].index = index THEN base + 1 ELSE 0

---------------------------------------------------------------------------
(* Storage (src/src/storage.rs and its three implementations: the file     *)
(* backed storage of src/apps/kvdb/src/storage.rs, writable ("File") or    *)
(* read-only ("ReadOnly"), and the in-memory storage of the tests,         *)
(* src/apps/kvdb/tests/storage.rs ("Memory")).  A write takes `ok`: whether *)
(* flushing to the file succeeded.  A failed write leaves the in-memory    *)
(* view as it was.                                                         *)

StorageKinds == {"Memory", "File", "ReadOnly"}

\* Only the writable file storage has a write that can fail.
CanFail(peer) == peer.storage = "File"

set_current_term(peer, term, ok) ==
    IF ok THEN [peer EXCEPT !.current_term = term] ELSE peer

set_voted_for(peer, voted_for, ok) ==
    IF ok THEN [peer EXCEPT !.voted_for = voted_for] ELSE peer

set_current_term_and_voted_for(peer, current_term, voted_for, ok) ==
    IF ok THEN [peer EXCEPT !.current_term = current_term, !.voted_for = voted_for]
    ELSE peer

append_log_entry(peer, entry, ok) ==
    IF ok THEN [peer EXCEPT !.log = Append(@, entry)] ELSE peer

\* The writable file storage reads the log file through a clone of its handle,
\* which shares the cursor the appends left at the end of the file: it reads
\* nothing and rewrites the file, and the log, empty.
RECURSIVE PrefixBelow(_, _)
PrefixBelow(log, down_to) ==
    IF log = <<>> \/ Head(log).index >= down_to THEN <<>>
    ELSE <<Head(log)>> \o PrefixBelow(Tail(log), down_to)

FileTruncate(log, down_to, cursor_at_end) ==
    IF cursor_at_end THEN <<>> ELSE PrefixBelow(log, down_to)

truncate_log(peer, down_to) ==
    [peer EXCEPT !.log =
        CASE peer.storage = "ReadOnly" -> SelectSeq(@, LAMBDA entry : entry.index < down_to)
          [] peer.storage = "Memory" -> SubSeq(@, 1, IF down_to < Len(@) THEN down_to ELSE Len(@))
          [] peer.storage = "File" -> FileTruncate(@, down_to, TRUE)]

---------------------------------------------------------------------------
(* Roles (src/src/role.rs).  A role is one record; the fields of the other *)
(* variants hold their empty values.                                       *)

Follower(leader_id) ==
    [kind |-> "Follower", leader_id |-> leader_id,
     votes_granted |-> 0, vote_request_ids |-> {},
     next_index |-> EmptyMap, match_index |-> EmptyMap,
     append_entries_requests |-> EmptyMap]

Candidate(votes_granted, vote_request_ids) ==
    [kind |-> "Candidate", leader_id |-> None,
     votes_granted |-> votes_granted, vote_request_ids |-> vote_request_ids,
     next_index |-> EmptyMap, match_index |-> EmptyMap,
     append_entries_requests |-> EmptyMap]

Leader(next_index, match_index, append_entries_requests) ==
    [kind |-> "Leader", leader_id |-> None,
     votes_granted |-> 0, vote_request_ids |-> {},
     next_index |-> next_index, match_index |-> match_index,
     append_entries_requests |-> append_entries_requests]

\* CandidateState::grant_vote
grant_vote(role, request_id) ==
    IF request_id \in role.vote_request_ids
    THEN [role EXCEPT !.vote_request_ids = @ \ {request_id}, !.votes_granted = @ + 1]
    ELSE role

---------------------------------------------------------------------------
(* Messages (src/src/message) and transmits (src/src/transmit.rs).         *)

RequestVoteRequest(term, candidate_id, last_log_index, last_log_term) ==
    [type |-> "RequestVoteRequest", term |-> term, candidate_id |-> candidate_id,
     last_log_index |-> last_log_index, last_log_term |-> last_log_term]

RequestVoteReply(term, vote) ==
    [type |-> "RequestVoteReply", term |-> term, vote |-> vote]

AppendEntriesRequest(term, leader_id, prev_log_index, prev_log_term, entries, leader_commit) ==
    [type |-> "AppendEntriesRequest", term |-> term, leader_id |-> leader_id,
     prev_log_index |-> prev_log_index, prev_log_term |-> prev_log_term,
     entries |-> entries, leader_commit |-> leader_commit]

AppendEntriesReply(term, success) ==
    [type |-> "AppendEntriesReply", term |-> term, success |-> success]

\* PeerMessage::is_request, PeerMessage::is_reply
is_request(message) == message.type \in {"RequestVoteRequest", "AppendEntriesRequest"}
is_reply(message) == message.type \in {"RequestVoteReply", "AppendEntriesReply"}

PeerTransmit(peer_id, request_id, message) ==
    [peer_id |-> peer_id, request_id |-> request_id, message |-> message]

ClientTransmit(client_id, peer_id, request_id, message) ==
    [client_id |-> client_id, peer_id |-> peer_id, request_id |-> request_id,
     message |-> message]

---------------------------------------------------------------------------
(* Peer (src/src/peer.rs).                                                 *)

\* Peer::new over a fresh storage of the given kind
NewPeer(id, storage) ==
    [id |-> id,
     storage |-> storage,
     current_term |-> 0,
     voted_for |-> None,
     log |-> <<>>,
     snapshot |-> DefaultSnapshot,
     role |-> Follower(None),
     machine |-> DefaultSnapshot.machine,
     commit_index |-> DefaultSnapshot.last_included_index,
     last_applied |-> DefaultSnapshot.last_included_index,
     request_counter |-> 0,
     buffered_peer_transmits |-> <<>>,
     buffered_client_transmits |-> <<>>,
     applied |-> <<>>,
     committed |-> {},
     panic |-> "none"]

\* Faulty variant of Peer::majority: half of the cluster.
majorityHalf == Cardinality(cluster) \div 2

majority == (Cardinality(cluster) \div 2) + 1

\* log().last().map(|entry| entry.index()).unwrap_or(snapshot().last_included_index())
LastLogIndex(peer) ==
    IF peer.log = <<>> THEN peer.snapshot.last_included_index
    ELSE peer.log[Len(peer.log)].index

LastLogTerm(peer) ==
    IF peer.log = <<>> THEN peer.snapshot.last_included_term
    ELSE peer.log[Len(peer.log)].term

\* a broadcast that reaches the peer itself as well
BroadcastToAll(peer, message) ==
    LET all == Ascending(cluster)
    IN [i \in 1..Len(all) |->
            PeerTransmit(all[i], peer.request_counter + i - 1, message)]

\* One transmit of `message` per other peer, in ascending peer id, each under
\* the next request id of the peer's request counter.
Broadcast(peer, message) ==
    LET others == Ascending(cluster \ {peer.id})
    IN [i \in 1..Len(others) |->
            PeerTransmit(others[i], peer.request_counter + i - 1, message)]

TransmitIds(transmits) == {transmits[i].request_id : i \in DOMAIN transmits}

become_leader(peer) ==
    LET prev_log_index == LastLogIndex(peer)
        prev_log_term == LastLogTerm(peer)
        no_op_log_index == LogIndexNext(prev_log_index)
        no_op_entry == LogEntry(no_op_log_index, peer.current_term, NoOp)
        appended == append_log_entry(peer, no_op_entry, TRUE)
        request == AppendEntriesRequest(peer.current_term, peer.id, prev_log_index,
                                        prev_log_term, <<no_op_entry>>, peer.commit_index)
        transmits == Broadcast(appended, request)
    IN [appended EXCEPT
            !.request_counter = @ + Len(transmits),
            !.buffered_peer_transmits = @ \o transmits,
            !.role = Leader(
                [q \in cluster \ {peer.id} |-> LogIndexNext(no_op_log_index)],
                [q \in cluster |-> IF q = peer.id THEN no_op_log_index
                                   ELSE peer.snapshot.last_included_index],
                [r \in TransmitIds(transmits) |-> request])]

trigger_election_timeout(peer, ok) ==
    LET new_term == TermNext(peer.current_term)
        voted == set_current_term_and_voted_for(peer, new_term, peer.id, ok)
        request == RequestVoteRequest(voted.current_term, peer.id,
                                      LastLogIndex(voted), LastLogTerm(voted))
        transmits == Broadcast(voted, request)
    IN IF ~ok THEN peer
       ELSE IF Cardinality(cluster) = 1 THEN become_leader(voted)
       ELSE [voted EXCEPT
                !.request_counter = @ + Len(transmits),
                !.buffered_peer_transmits = @ \o transmits,
                !.role = Candidate(1, TransmitIds(transmits))]

\* a heartbeat that does not carry the leader's commit_index
HeartbeatWithoutCommit(peer) ==
    LET request == AppendEntriesRequest(peer.current_term, peer.id, LastLogIndex(peer),
                                        LastLogTerm(peer), <<>>, 0)
        transmits == Broadcast(peer, request)
    IN IF peer.role.kind = "Leader"
       THEN [peer EXCEPT
                !.request_counter = @ + Len(transmits),
                !.buffered_peer_transmits = @ \o transmits,
                !.role.append_entries_requests =
                    [r \in DOMAIN @ \cup TransmitIds(transmits) |->
                        IF r \in TransmitIds(transmits) THEN request ELSE @[r]]]
       ELSE peer

\* a heartbeat that takes a request id on a peer that is not Leader
HeartbeatConsumingId(peer) ==
    LET request == AppendEntriesRequest(peer.current_term, peer.id, LastLogIndex(peer),
                                        LastLogTerm(peer), <<>>, peer.commit_index)
        transmits == Broadcast(peer, request)
    IN IF peer.role.kind = "Leader"
       THEN [peer EXCEPT
                !.request_counter = @ + Len(transmits),
                !.buffered_peer_transmits = @ \o transmits,
                !.role.append_entries_requests =
                    [r \in DOMAIN @ \cup TransmitIds(transmits) |->
                        IF r \in TransmitIds(transmits) THEN request ELSE @[r]]]
       ELSE [peer EXCEPT !.request_counter = @ + 1]

trigger_heartbeat_timeout(peer) ==
    LET request == AppendEntriesRequest(peer.current_term, peer.id, LastLogIndex(peer),
                                        LastLogTerm(peer), <<>>, peer.commit_index)
        transmits == Broadcast(peer, request)
    IN IF peer.role.kind = "Leader"
       THEN [peer EXCEPT
                !.request_counter = @ + Len(transmits),
                !.buffered_peer_transmits = @ \o transmits,
                !.role.append_entries_requests =
                    [r \in DOMAIN @ \cup TransmitIds(transmits) |->
                        IF r \in TransmitIds(transmits) THEN request ELSE @[r]]]
       ELSE peer

\* The loop of Peer::apply_committed; self.last_applied is assigned after it.
RECURSIVE ApplyLoop(_, _)
ApplyLoop(peer, last_applied) ==
    IF last_applied < peer.commit_index
    THEN LET index == LogIndexNext(last_applied)
             position == BinarySearch(peer.log, index)
         IN IF position = 0
            THEN [peer EXCEPT !.panic = "apply_committed: unreachable"]
            ELSE ApplyLoop(
                    [peer EXCEPT
                        !.machine = MachineApply(@, peer.log[position].command),
                        !.applied = Append(@, [index |-> index,
                                               command |-> peer.log[position].command])],
                    index)
    ELSE [peer EXCEPT !.last_applied = last_applied]

apply_committed(peer) == ApplyLoop(peer, peer.last_applied)

---------------------------------------------------------------------------
(* RequestVoteRequest::receive (src/src/message/request_vote_request.rs).  *)
(* term_ok and vote_ok are the outcomes of the two storage writes.  The    *)
(* result is the peer after the call and the reply.                        *)

is_at_least_as_up_to_date(request, last_log_index, last_log_term) ==
    \/ request.last_log_term > last_log_term
    \/ (request.last_log_term = last_log_term /\ request.last_log_index >= last_log_index)

\* from the second voted_for check (line 94) on
RequestVoteDecide(request, sending_peer_id, peer, reply_term, vote_ok) ==
    IF peer.voted_for # None
    THEN [peer |-> peer,
          reply |-> RequestVoteReply(reply_term,
                        IF peer.voted_for # sending_peer_id
                        THEN "NotGrantedDueToBeingGrantedToAnotherPeer"
                        ELSE "Granted")]
    ELSE IF ~is_at_least_as_up_to_date(request, LastLogIndex(peer), LastLogTerm(peer))
    THEN [peer |-> peer,
          reply |-> RequestVoteReply(reply_term, "NotGrantedDueToBeingLessUpToDate")]
    ELSE IF ~vote_ok
    THEN [peer |-> peer,
          reply |-> RequestVoteReply(reply_term, "NotGrantedDueToStorageError")]
    ELSE [peer |-> set_voted_for(peer, sending_peer_id, TRUE),
          reply |-> RequestVoteReply(reply_term, "Granted")]

RequestVoteRequestReceive(request, sending_peer_id, peer, term_ok, vote_ok) ==
    LET current_term == peer.current_term
    IN IF request.term < current_term
       THEN [peer |-> peer,
             reply |-> RequestVoteReply(current_term, "NotGrantedDueToBeingInHigherTerm")]
       ELSE IF request.term = current_term /\ peer.voted_for # None
       THEN [peer |-> peer,
             reply |-> RequestVoteReply(current_term,
                           IF peer.voted_for # sending_peer_id
                           THEN "NotGrantedDueToBeingGrantedToAnotherPeer"
                           ELSE "Granted")]
       ELSE IF request.term > current_term
       THEN IF ~term_ok
            THEN [peer |-> peer,
                  reply |-> RequestVoteReply(current_term, "NotGrantedDueToStorageError")]
            ELSE RequestVoteDecide(request, sending_peer_id,
                    set_current_term_and_voted_for(peer, request.term, None, TRUE),
                    request.term, vote_ok)
       ELSE RequestVoteDecide(request, sending_peer_id, peer, current_term, vote_ok)

---------------------------------------------------------------------------
(* RequestVoteReply::receive (src/src/message/request_vote_reply.rs).      *)

\* Faulty variant of the retain of RequestVoteReply::receive: the queue is emptied.
RetainNothing(transmits) == <<>>

RetainNotRequestVote(transmits) ==
    SelectSeq(transmits, LAMBDA transmit : transmit.message.type # "RequestVoteRequest")

RequestVoteReplyReceive(reply, sending_peer_id, request_id, peer, ok) ==
    IF reply.term > peer.current_term
    THEN [set_current_term_and_voted_for(peer, reply.term, None, ok) EXCEPT
            !.role = Follower(None),
            !.buffered_peer_transmits = RetainNotRequestVote(@)]
    ELSE IF peer.role.kind # "Candidate" THEN peer
    ELSE IF request_id \notin peer.role.vote_request_ids THEN peer
    ELSE CASE reply.vote = "Granted" ->
                IF reply.term # peer.current_term
                THEN [peer EXCEPT !.panic = "RequestVoteReply: assert_eq"]
                ELSE LET granted == [peer EXCEPT !.role = grant_vote(@, request_id)]
                     IN IF granted.role.votes_granted >= majority
                        THEN become_leader(granted)
                        ELSE granted
           [] reply.vote = "NotGrantedDueToStorageError" ->
                [peer EXCEPT !.buffered_peer_transmits =
                    Append(@, PeerTransmit(sending_peer_id, request_id,
                                RequestVoteRequest(peer.current_term, peer.id,
                                                   LastLogIndex(peer), LastLogTerm(peer))))]
           [] OTHER -> peer

---------------------------------------------------------------------------
(* AppendEntriesRequest::receive (src/src/message/append_entries_request.rs). *)
(* Its storage writes are followed by expect(): `ok` is whether they       *)
(* succeed, and a failing one panics.                                      *)

RECURSIVE AppendAll(_, _)
AppendAll(peer, entries) ==
    IF entries = <<>> THEN peer
    ELSE AppendAll(append_log_entry(peer, Head(entries), TRUE), Tail(entries))

\* from the term comparison (line 60) on
AppendEntriesAccept(request, sending_peer_id, peer, current_term, ok) ==
    LET writes == request.term > current_term \/ request.entries # <<>>
        entered == IF request.term > current_term
                   THEN [set_current_term(peer, request.term, TRUE) EXCEPT
                            !.role = Follower(sending_peer_id)]
                   ELSE peer
    IN IF writes /\ ~ok
       THEN [peer |-> [peer EXCEPT !.panic = "AppendEntriesRequest: expect"],
             reply |-> AppendEntriesReply(current_term, FALSE)]
       ELSE IF entered.role.kind = "Leader"
       THEN [peer |-> [entered EXCEPT !.panic = "AppendEntriesRequest: unreachable"],
             reply |-> AppendEntriesReply(current_term, FALSE)]
       ELSE [peer |-> [AppendAll([entered EXCEPT !.role = Follower(sending_peer_id)],
                                 request.entries)
                       EXCEPT !.commit_index = request.leader_commit],
             reply |-> AppendEntriesReply(current_term, TRUE)]

AppendEntriesRequestReceive(request, sending_peer_id, peer, ok) ==
    LET current_term == peer.current_term
        prev_log_position == BinarySearch(peer.log, request.prev_log_index)
    IN IF request.term < current_term
       THEN [peer |-> peer, reply |-> AppendEntriesReply(current_term, FALSE)]
       ELSE IF request.prev_log_index # 0 /\ prev_log_position = 0
       THEN [peer |-> peer, reply |-> AppendEntriesReply(current_term, FALSE)]
       ELSE IF request.prev_log_index # 0
               /\ peer.log[prev_log_position].term # request.prev_log_term
       THEN [peer |-> IF ok THEN truncate_log(peer, peer.log[prev_log_position].index)
                      ELSE [peer EXCEPT !.panic = "AppendEntriesRequest: expect"],
             reply |-> AppendEntriesReply(current_term, FALSE)]
       ELSE AppendEntriesAccept(request, sending_peer_id, peer, current_term, ok)

---------------------------------------------------------------------------
(* AppendEntriesReply::receive (src/src/message/append_entries_reply.rs).  *)

RECURSIVE Descending(_)
Descending(S) ==
    IF S = {} THEN <<>>
    ELSE LET greatest == CHOOSE x \in S : \A y \in S : x >= y
         IN <<greatest>> \o Descending(S \ {greatest})

\* replication_counts[log_index]
ReplicationCount(match_index, log_index) ==
    Cardinality({q \in DOMAIN match_index : match_index[q] = log_index})

\* The 'search loop over the replication counts, highest log index first.
RECURSIVE CommitSearch(_, _, _, _)
CommitSearch(match_index, log_indices, accumulated_replication_count, new_commit_index) ==
    IF log_indices = <<>> THEN new_commit_index
    ELSE LET log_index == Head(log_indices)
             accumulated == accumulated_replication_count
                            + ReplicationCount(match_index, log_index)
         IN IF log_index <= new_commit_index THEN new_commit_index
            ELSE IF accumulated >= majority THEN log_index
            ELSE CommitSearch(match_index, Tail(log_indices), accumulated, new_commit_index)

replicated_log_index(request) ==
    IF request.entries # <<>> THEN request.entries[Len(request.entries)].index
    ELSE request.prev_log_index

AppendEntriesSucceeded(request, sending_peer_id, peer) ==
    LET replicated ==
            [peer EXCEPT
                !.role.next_index =
                    IF sending_peer_id \in DOMAIN @
                    THEN [@ EXCEPT ![sending_peer_id] =
                            LogIndexNext(replicated_log_index(request))]
                    ELSE @,
                !.role.match_index =
                    IF sending_peer_id \in DOMAIN @
                    THEN [@ EXCEPT ![sending_peer_id] = replicated_log_index(request)]
                    ELSE @]
        match_index == replicated.role.match_index
        new_commit_index ==
            CommitSearch(match_index,
                         Descending({match_index[q] : q \in DOMAIN match_index}),
                         0, peer.commit_index)
    IN [replicated EXCEPT
            !.commit_index = new_commit_index,
            !.committed = @ \cup
                {[term |-> peer.current_term, entry |-> peer.log[k]] :
                    k \in {l \in DOMAIN peer.log :
                            /\ peer.log[l].index > peer.commit_index
                            /\ peer.log[l].index <= new_commit_index}}]

AppendEntriesFailed(sending_peer_id, peer) ==
    IF sending_peer_id \notin DOMAIN peer.role.next_index THEN peer
    ELSE IF ~(peer.role.next_index[sending_peer_id]
                > LogIndexNext(peer.snapshot.last_included_index))
    THEN [peer EXCEPT !.panic = "AppendEntriesReply: unimplemented (snapshots)"]
    ELSE LET next_index == LogIndexPrevious(peer.role.next_index[sending_peer_id])
             next_index_position == BinarySearch(peer.log, next_index)
             backed == [peer EXCEPT !.role.next_index[sending_peer_id] = next_index]
         IN IF next_index_position = 0
            THEN [backed EXCEPT !.panic = "AppendEntriesReply: unimplemented (needs snapshot)"]
            ELSE LET next_term == IF next_index = 0 THEN 0
                                  ELSE peer.log[next_index_position].term
                     request == AppendEntriesRequest(
                                    peer.current_term, peer.id, next_index, next_term,
                                    SubSeq(peer.log, next_index_position, Len(peer.log)),
                                    peer.commit_index)
                     request_id == peer.request_counter
                 IN [backed EXCEPT
                        !.request_counter = @ + 1,
                        !.role.append_entries_requests = MapInsert(@, request_id, request),
                        !.buffered_peer_transmits =
                            Append(@, PeerTransmit(sending_peer_id, request_id, request))]

\* Faulty variant of AppendEntriesReply::receive: a failed reply under a request
\* id that is not recorded backs next_index off all the same.
AppendEntriesReplyUnrecorded(reply, sending_peer_id, request_id, peer, ok) ==
    IF reply.term > peer.current_term
    THEN LET updated == set_current_term_and_voted_for(peer, reply.term, None, ok)
         IN IF peer.role.kind = "Leader"
            THEN [updated EXCEPT !.role = Follower(None)]
            ELSE updated
    ELSE IF reply.term < peer.current_term THEN peer
    ELSE IF peer.role.kind # "Leader" THEN peer
    ELSE IF request_id \notin DOMAIN peer.role.append_entries_requests
    THEN IF reply.success THEN peer ELSE AppendEntriesFailed(sending_peer_id, peer)
    ELSE LET request == peer.role.append_entries_requests[request_id]
             removed == [peer EXCEPT !.role.append_entries_requests =
                            MapRemove(@, request_id)]
         IN IF reply.success
            THEN AppendEntriesSucceeded(request, sending_peer_id, removed)
            ELSE AppendEntriesFailed(sending_peer_id, removed)

AppendEntriesReplyReceive(reply, sending_peer_id, request_id, peer, ok) ==
    IF reply.term > peer.current_term
    THEN LET updated == set_current_term_and_voted_for(peer, reply.term, None, ok)
         IN IF peer.role.kind = "Leader"
            THEN [updated EXCEPT !.role = Follower(None)]
            ELSE updated
    ELSE IF reply.term < peer.current_term THEN peer
    ELSE IF peer.role.kind # "Leader" THEN peer
    ELSE IF request_id \notin DOMAIN peer.role.append_entries_requests THEN peer
    ELSE LET request == peer.role.append_entries_requests[request_id]
             removed == [peer EXCEPT !.role.append_entries_requests =
                            MapRemove(@, request_id)]
         IN IF reply.success
            THEN AppendEntriesSucceeded(request, sending_peer_id, removed)
            ELSE AppendEntriesFailed(sending_peer_id, removed)

---------------------------------------------------------------------------
(* Clients (src/src/client.rs, src/src/message/command_request.rs,         *)
(* src/src/message/command_reply.rs).                                      *)

CommandRequest(command) == [type |-> "CommandRequest", command |-> command]

\* CommandReply with result Err(error); new_leader_id is that of LeaderChanged
CommandReplyErr(error, new_leader_id) ==
    [type |-> "CommandReply", error |-> error, new_leader_id |-> new_leader_id]

\* Client::new
NewClient(id) ==
    [id |-> id,
     leader |-> None,
     request_counter |-> 0,
     commands |-> EmptyMap,
     queries |-> EmptyMap,
     buffered_client_transmits |-> <<>>]

QueryRequest(query) == [type |-> "QueryRequest", query |-> query]

\* QueryReply with result Err(error); new_leader_id is that of LeaderChanged
QueryReplyErr(error, new_leader_id) ==
    [type |-> "QueryReply", error |-> error, new_leader_id |-> new_leader_id]

\* QueryReply with result Ok(result)
QueryReplyOk(result) ==
    [type |-> "QueryReply", error |-> "none", new_leader_id |-> None, result |-> result]

\* Client::query; random_peer_id is what the client's generator draws
ClientQuery(client, query, peer_id, random_peer_id) ==
    LET request_id == client.request_counter
        target == IF peer_id # None THEN peer_id
                  ELSE IF client.leader # None THEN client.leader
                  ELSE random_peer_id
    IN [client EXCEPT
            !.request_counter = @ + 1,
            !.queries = MapInsert(@, request_id, query),
            !.buffered_client_transmits =
                Append(@, ClientTransmit(client.id, target, request_id,
                                         QueryRequest(query)))]

\* Faulty variant of QueryRequest::receive: a Follower that knows its leader
\* answers LeaderUnknown.
QueryRequestUnknowing(request, sending_client_id, request_id, peer) ==
    IF consistency = "Eventual"
    THEN LET applied == IF peer.last_applied < peer.commit_index
                        THEN apply_committed(peer) ELSE peer
         IN [peer |-> applied,
             reply |-> <<QueryReplyOk(MachineQuery(applied.machine, request.query))>>]
    ELSE CASE peer.role.kind = "Leader" -> [peer |-> peer, reply |-> <<>>]
           [] peer.role.kind = "Candidate" ->
                [peer |-> peer, reply |-> <<QueryReplyErr("LeaderUnknown", None)>>]
           [] peer.role.kind = "Follower" ->
                [peer |-> peer, reply |-> <<QueryReplyErr("LeaderUnknown", None)>>]

\* QueryRequest::receive: the peer after the call and the reply, if any; the
\* consistency of the peer is the one of the simulation
QueryRequestReceive(request, sending_client_id, request_id, peer) ==
    IF consistency = "Eventual"
    THEN LET applied == IF peer.last_applied < peer.commit_index
                        THEN apply_committed(peer) ELSE peer
         IN [peer |-> applied,
             reply |-> <<QueryReplyOk(MachineQuery(applied.machine, request.query))>>]
    ELSE CASE peer.role.kind = "Leader" -> [peer |-> peer, reply |-> <<>>]
           [] peer.role.kind = "Candidate" ->
                [peer |-> peer, reply |-> <<QueryReplyErr("LeaderUnknown", None)>>]
           [] peer.role.kind = "Follower" ->
                [peer |-> peer,
                 reply |-> IF peer.role.leader_id # None
                           THEN <<QueryReplyErr("LeaderChanged", peer.role.leader_id)>>
                           ELSE <<QueryReplyErr("LeaderUnknown", None)>>]

\* Client::command; random_peer_id is what the client's generator draws
ClientCommand(client, command, peer_id, random_peer_id) ==
    LET request_id == client.request_counter
        target == IF peer_id # None THEN peer_id
                  ELSE IF client.leader # None THEN client.leader
                  ELSE random_peer_id
    IN [client EXCEPT
            !.request_counter = @ + 1,
            !.commands = MapInsert(@, request_id, command),
            !.buffered_client_transmits =
                Append(@, ClientTransmit(client.id, target, request_id,
                                         CommandRequest(command)))]

\* Faulty variant of CommandRequest::receive: the entry stays in the log of the
\* Leader although the reply is StorageError.
CommandRequestKeepingEntry(request, sending_client_id, request_id, peer, ok) ==
    LET prev_log_index == LastLogIndex(peer)
        prev_log_term == LastLogTerm(peer)
        log_entry == LogEntry(LogIndexNext(prev_log_index), peer.current_term,
                              request.command)
        appended == append_log_entry(peer, log_entry, TRUE)
        append_entries == AppendEntriesRequest(peer.current_term, peer.id, prev_log_index,
                                               prev_log_term, <<log_entry>>,
                                               peer.commit_index)
        transmits == Broadcast(appended, append_entries)
    IN CASE peer.role.kind = "Candidate" ->
                [peer |-> peer, reply |-> <<CommandReplyErr("LeaderUnknown", None)>>]
         [] peer.role.kind = "Follower" ->
                [peer |-> peer,
                 reply |-> IF peer.role.leader_id # None
                           THEN <<CommandReplyErr("LeaderChanged", peer.role.leader_id)>>
                           ELSE <<CommandReplyErr("LeaderUnknown", None)>>]
         [] peer.role.kind = "Leader" ->
                IF ~ok
                THEN [peer |-> appended, reply |-> <<CommandReplyErr("StorageError", None)>>]
                ELSE [peer |-> [appended EXCEPT
                                  !.request_counter = @ + Len(transmits),
                                  !.buffered_peer_transmits = @ \o transmits,
                                  !.role.append_entries_requests =
                                      [r \in DOMAIN @ \cup TransmitIds(transmits) |->
                                          IF r \in TransmitIds(transmits)
                                          THEN append_entries ELSE @[r]]],
                      reply |-> <<>>]

\* CommandRequest::receive: the peer after the call and the reply, if any
CommandRequestReceive(request, sending_client_id, request_id, peer, ok) ==
    LET prev_log_index == LastLogIndex(peer)
        prev_log_term == LastLogTerm(peer)
        log_entry == LogEntry(LogIndexNext(prev_log_index), peer.current_term,
                              request.command)
        appended == append_log_entry(peer, log_entry, TRUE)
        append_entries == AppendEntriesRequest(peer.current_term, peer.id, prev_log_index,
                                               prev_log_term, <<log_entry>>,
                                               peer.commit_index)
        transmits == Broadcast(appended, append_entries)
    IN CASE peer.role.kind = "Candidate" ->
                [peer |-> peer, reply |-> <<CommandReplyErr("LeaderUnknown", None)>>]
         [] peer.role.kind = "Follower" ->
                [peer |-> peer,
                 reply |-> IF peer.role.leader_id # None
                           THEN <<CommandReplyErr("LeaderChanged", peer.role.leader_id)>>
                           ELSE <<CommandReplyErr("LeaderUnknown", None)>>]
         [] peer.role.kind = "Leader" ->
                IF ~ok
                THEN [peer |-> peer, reply |-> <<CommandReplyErr("StorageError", None)>>]
                ELSE [peer |-> [appended EXCEPT
                                  !.request_counter = @ + Len(transmits),
                                  !.buffered_peer_transmits = @ \o transmits,
                                  !.role.append_entries_requests =
                                      [r \in DOMAIN @ \cup TransmitIds(transmits) |->
                                          IF r \in TransmitIds(transmits)
                                          THEN append_entries ELSE @[r]]],
                      reply |-> <<>>]

\* Peer::receive_client_message for a QueryRequest or a CommandRequest
receive_client_message(peer, client_id, request_id, message, ok) ==
    LET received == IF message.type = "QueryRequest"
                    THEN QueryRequestReceive(message, client_id, request_id, peer)
                    ELSE CommandRequestReceive(message, client_id, request_id, peer, ok)
    IN IF received.reply = <<>> THEN received.peer
       ELSE [received.peer EXCEPT !.buffered_client_transmits =
                Append(@, ClientTransmit(client_id, peer.id, request_id,
                                         received.reply[1]))]

\* CommandReply::receive for a reply with result Err(_)
CommandReplyReceive(reply, sending_peer_id, request_id, client) ==
    IF reply.error = "LeaderChanged" /\ request_id \in DOMAIN client.commands
    THEN [client EXCEPT
            !.leader = reply.new_leader_id,
            !.buffered_client_transmits =
                Append(@, ClientTransmit(client.id, reply.new_leader_id, request_id,
                                         CommandRequest(client.commands[request_id])))]
    ELSE client

---------------------------------------------------------------------------
(* Peer::receive_peer_message (src/src/peer.rs).                           *)

receive_peer_message(peer, peer_id, request_id, message, term_ok, vote_ok) ==
    CASE message.type = "RequestVoteRequest" ->
            LET received == RequestVoteRequestReceive(message, peer_id, peer,
                                                      term_ok, vote_ok)
            IN [received.peer EXCEPT !.buffered_peer_transmits =
                    Append(@, PeerTransmit(peer_id, request_id, received.reply))]
      [] message.type = "RequestVoteReply" ->
            RequestVoteReplyReceive(message, peer_id, request_id, peer, term_ok)
      [] message.type = "AppendEntriesRequest" ->
            LET received == AppendEntriesRequestReceive(message, peer_id, peer, term_ok)
            IN [received.peer EXCEPT !.buffered_peer_transmits =
                    Append(@, PeerTransmit(peer_id, request_id, received.reply))]
      [] message.type = "AppendEntriesReply" ->
            AppendEntriesReplyReceive(message, peer_id, request_id, peer, term_ok)

---------------------------------------------------------------------------
(* The simulator (src/utilities/simulator/src/simulation.rs).  Each action *)
(* of Simulation::perform is one action below.  An action whose transmit   *)
(* does not exist returns an error and changes nothing: it is not a step.  *)

ClientIds == 1..NumClients

Commands == {Insert("k", "a")}

\* position of the first request of the queue with the request id, 0 if none
RequestPosition(transmits, request_id) ==
    LET matching == {i \in DOMAIN transmits :
                        is_request(transmits[i].message)
                        /\ transmits[i].request_id = request_id}
    IN IF matching = {} THEN 0 ELSE CHOOSE i \in matching : \A j \in matching : i <= j

\* position of the first reply of the queue to the request of the replied peer
ReplyPosition(transmits, replied_peer_id, request_id) ==
    LET matching == {i \in DOMAIN transmits :
                        is_reply(transmits[i].message)
                        /\ transmits[i].peer_id = replied_peer_id
                        /\ transmits[i].request_id = request_id}
    IN IF matching = {} THEN 0 ELSE CHOOSE i \in matching : \A j \in matching : i <= j

ClientRequestPosition(transmits, request_id) ==
    LET matching == {i \in DOMAIN transmits :
                        transmits[i].message.type \in {"CommandRequest", "QueryRequest"}
                        /\ transmits[i].request_id = request_id}
    IN IF matching = {} THEN 0 ELSE CHOOSE i \in matching : \A j \in matching : i <= j

ClientReplyPosition(transmits, replied_client_id, request_id) ==
    LET matching == {i \in DOMAIN transmits :
                        transmits[i].message.type = "CommandReply"
                        /\ transmits[i].client_id = replied_client_id
                        /\ transmits[i].request_id = request_id}
    IN IF matching = {} THEN 0 ELSE CHOOSE i \in matching : \A j \in matching : i <= j

\* the peers after the transmit at position of peer_id's queue is delivered
DeliverPeerTransmit(peer_id, position, term_ok, vote_ok) ==
    LET transmit == peers[peer_id].buffered_peer_transmits[position]
        removed == [peers EXCEPT ![peer_id].buffered_peer_transmits =
                        RemoveAt(@, position)]
    IN [removed EXCEPT ![transmit.peer_id] =
            receive_peer_message(@, peer_id, transmit.request_id, transmit.message,
                                 term_ok, vote_ok)]

NoPanic == \A p \in cluster : peers[p].panic = "none"

WithinBounds(next_peers) ==
    \A p \in cluster :
        /\ next_peers[p].current_term <= MaxTerm
        /\ next_peers[p].request_counter <= MaxRequests
        /\ Len(next_peers[p].log) <= MaxLog

\* What the script driving the simulation may still do: election timeouts per
\* peer, heartbeat timeouts, commands, drops and failing storage writes in all;
\* the steps it starts with, and the number of steps, any within the budget, that
\* it takes after them; error is whether Simulation::perform returned an error.
Budget(timeouts, heartbeats, commands, drops, storage_failures, script) ==
    [timeouts |-> timeouts, heartbeats |-> heartbeats, commands |-> commands,
     drops |-> drops, storage_failures |-> storage_failures, script |-> script,
     steps |-> MaxSteps, error |-> FALSE]

\* the step is the next one of the script or, the script over, one more step
Scripted(step) ==
    IF budget.script = <<>> THEN budget.steps > 0
    ELSE Head(budget.script)[1] = step[1] /\ Head(budget.script) = step

\* the budget after a step
Advance(spent) ==
    IF spent.script = <<>> THEN [spent EXCEPT !.steps = @ - 1]
    ELSE [spent EXCEPT !.script = Tail(@)]

\* the outcomes of a storage write of the peer: it may fail on a file storage
\* while the budget of failures lasts
Outcomes(peer_id) ==
    IF CanFail(peers[peer_id]) /\ budget.storage_failures > 0 THEN BOOLEAN ELSE {TRUE}

\* A storage write of peer_id may fail while the budget of failures lasts; a
\* failure is a step whose outcome differs from the one of the successful write.
StorageOutcome(peer_id, next_peers, next_peers_ok, spent) ==
    IF next_peers = next_peers_ok THEN budget' = Advance(spent)
    ELSE /\ CanFail(peers[peer_id])
         /\ budget.storage_failures > 0
         /\ budget' = Advance([spent EXCEPT !.storage_failures = @ - 1])

\* Simulation::new over storages of one kind, and the budget of the script
InitWith(storage, script_budget) ==
    /\ cluster = 1..NumPeers
    /\ consistency = "Strong"
    /\ peers = [p \in 1..NumPeers |-> NewPeer(p, storage)]
    /\ clients = [c \in ClientIds |-> NewClient(c)]
    /\ replay_peers = <<>>
    /\ budget = script_budget

TimeoutElection(peer_id) ==
    /\ NoPanic
    /\ Scripted(<<"TimeoutElection", peer_id>>)
    /\ budget.timeouts[peer_id] > 0
    /\ \E ok \in Outcomes(peer_id) :
        \E next_peers \in {[peers EXCEPT ![peer_id] = trigger_election_timeout(@, ok)]},
           next_peers_ok \in {[peers EXCEPT ![peer_id] = trigger_election_timeout(@, TRUE)]} :
           /\ WithinBounds(next_peers_ok)
           /\ StorageOutcome(peer_id, next_peers, next_peers_ok,
                             [budget EXCEPT !.timeouts[peer_id] = @ - 1])
           /\ peers' = next_peers
    /\ UNCHANGED <<replay_peers, cluster, consistency, clients>>

TimeoutHeartbeat(peer_id) ==
    /\ NoPanic
    /\ Scripted(<<"TimeoutHeartbeat", peer_id>>)
    /\ budget.heartbeats > 0
    /\ \E next_peers \in {[peers EXCEPT ![peer_id] = trigger_heartbeat_timeout(@)]} :
          /\ WithinBounds(next_peers)
          /\ peers' = next_peers
    /\ budget' = Advance([budget EXCEPT !.heartbeats = @ - 1])
    /\ UNCHANGED <<replay_peers, cluster, consistency, clients>>

TransmitPeerRequest(peer_id, request_id) ==
    /\ NoPanic
    /\ Scripted(<<"TransmitPeerRequest", peer_id, request_id>>)
    /\ LET position == RequestPosition(peers[peer_id].buffered_peer_transmits, request_id)
       IN /\ position # 0
          /\ \E term_ok, vote_ok \in
                    Outcomes(peers[peer_id].buffered_peer_transmits[position].peer_id) :
                \E next_peers \in {DeliverPeerTransmit(peer_id, position, term_ok, vote_ok)},
                   next_peers_ok \in {DeliverPeerTransmit(peer_id, position, TRUE, TRUE)},
                   target \in {peers[peer_id].buffered_peer_transmits[position].peer_id} :
                   /\ WithinBounds(next_peers_ok)
                   /\ StorageOutcome(target, next_peers, next_peers_ok, budget)
                   /\ peers' = next_peers
    /\ UNCHANGED <<replay_peers, cluster, consistency, clients>>

DropPeerRequest(peer_id, request_id) ==
    /\ NoPanic
    /\ Scripted(<<"DropPeerRequest", peer_id, request_id>>)
    /\ budget.drops > 0
    /\ LET position == RequestPosition(peers[peer_id].buffered_peer_transmits, request_id)
       IN /\ position # 0
          /\ peers' = [peers EXCEPT ![peer_id].buffered_peer_transmits =
                          RemoveAt(@, position)]
    /\ budget' = Advance([budget EXCEPT !.drops = @ - 1])
    /\ UNCHANGED <<replay_peers, cluster, consistency, clients>>

TransmitPeerReply(peer_id, replied_peer_id, request_id) ==
    /\ NoPanic
    /\ Scripted(<<"TransmitPeerReply", peer_id, replied_peer_id, request_id>>)
    /\ LET position == ReplyPosition(peers[peer_id].buffered_peer_transmits,
                                     replied_peer_id, request_id)
       IN /\ position # 0
          /\ \E ok \in Outcomes(replied_peer_id) :
                \E next_peers \in {DeliverPeerTransmit(peer_id, position, ok, ok)},
                   next_peers_ok \in {DeliverPeerTransmit(peer_id, position, TRUE, TRUE)} :
                   /\ WithinBounds(next_peers_ok)
                   /\ StorageOutcome(replied_peer_id, next_peers, next_peers_ok, budget)
                   /\ peers' = next_peers
    /\ UNCHANGED <<replay_peers, cluster, consistency, clients>>

DropPeerReply(peer_id, replied_peer_id, request_id) ==
    /\ NoPanic
    /\ Scripted(<<"DropPeerReply", peer_id, replied_peer_id, request_id>>)
    /\ budget.drops > 0
    /\ LET position == ReplyPosition(peers[peer_id].buffered_peer_transmits,
                                     replied_peer_id, request_id)
       IN /\ position # 0
          /\ peers' = [peers EXCEPT ![peer_id].buffered_peer_transmits =
                          RemoveAt(@, position)]
    /\ budget' = Advance([budget EXCEPT !.drops = @ - 1])
    /\ UNCHANGED <<replay_peers, cluster, consistency, clients>>

\* Action::ApplyCommitted { peer_id }: one peer, or every peer for None
ApplyCommitted(peer_id) ==
    /\ NoPanic
    /\ Scripted(<<"ApplyCommitted", peer_id>>)
    /\ peers' = [p \in cluster |->
                    IF peer_id = None \/ peer_id = p THEN apply_committed(peers[p])
                    ELSE peers[p]]
    /\ peers' # peers
    /\ budget' = Advance(budget)
    /\ UNCHANGED <<replay_peers, cluster, consistency, clients>>

SendCommand(client_id, peer_id, command) ==
    /\ NoPanic
    /\ Scripted(<<"SendCommand", client_id, peer_id>>)
    /\ budget.commands > 0
    /\ \E random_peer_id \in cluster :
            clients' = [clients EXCEPT ![client_id] =
                            ClientCommand(@, command, peer_id, random_peer_id)]
    /\ budget' = Advance([budget EXCEPT !.commands = @ - 1])
    /\ UNCHANGED <<replay_peers, cluster, consistency, peers>>

\* the queries of the client
Queries == {Length, Entry("k")}

\* Action::SendQuery; it is counted in the budget of commands
SendQuery(client_id, peer_id, query) ==
    /\ NoPanic
    /\ Scripted(<<"SendQuery", client_id, peer_id>>)
    /\ budget.commands > 0
    /\ \E random_peer_id \in cluster :
            clients' = [clients EXCEPT ![client_id] =
                            ClientQuery(@, query, peer_id, random_peer_id)]
    /\ budget' = Advance([budget EXCEPT !.commands = @ - 1])
    /\ UNCHANGED <<replay_peers, cluster, consistency, peers>>

TransmitClientRequest(client_id, request_id) ==
    /\ NoPanic
    /\ Scripted(<<"TransmitClientRequest", client_id, request_id>>)
    /\ LET transmits == clients[client_id].buffered_client_transmits
           position == ClientRequestPosition(transmits, request_id)
       IN /\ position # 0
          /\ clients' = [clients EXCEPT ![client_id].buffered_client_transmits =
                            RemoveAt(@, position)]
          /\ \E ok \in Outcomes(transmits[position].peer_id) :
                LET target == transmits[position].peer_id
                    next_peers == [peers EXCEPT ![target] =
                        receive_client_message(@, client_id, request_id,
                                               transmits[position].message, ok)]
                    next_peers_ok == [peers EXCEPT ![target] =
                        receive_client_message(@, client_id, request_id,
                                               transmits[position].message, TRUE)]
                IN /\ WithinBounds(next_peers_ok)
                   /\ StorageOutcome(target, next_peers, next_peers_ok, budget)
                   /\ peers' = next_peers
    /\ UNCHANGED <<replay_peers, cluster, consistency>>

TransmitClientReply(peer_id, replied_client_id, request_id) ==
    /\ NoPanic
    /\ Scripted(<<"TransmitClientReply", peer_id, replied_client_id, request_id>>)
    /\ LET transmits == peers[peer_id].buffered_client_transmits
           position == ClientReplyPosition(transmits, replied_client_id, request_id)
       IN /\ position # 0
          /\ peers' = [peers EXCEPT ![peer_id].buffered_client_transmits =
                          RemoveAt(@, position)]
          /\ clients' = [clients EXCEPT ![replied_client_id] =
                            CommandReplyReceive(transmits[position].message, peer_id,
                                                request_id, @)]
    /\ budget' = Advance(budget)
    /\ UNCHANGED <<replay_peers, cluster, consistency>>

DropClientReply(peer_id, replied_client_id, request_id) ==
    /\ NoPanic
    /\ Scripted(<<"DropClientReply", peer_id, replied_client_id, request_id>>)
    /\ budget.drops > 0
    /\ LET transmits == peers[peer_id].buffered_client_transmits
           position == ClientReplyPosition(transmits, replied_client_id, request_id)
       IN /\ position # 0
          /\ peers' = [peers EXCEPT ![peer_id].buffered_client_transmits =
                          RemoveAt(@, position)]
    /\ budget' = Advance([budget EXCEPT !.drops = @ - 1])
    /\ UNCHANGED <<replay_peers, cluster, consistency, clients>>

RequestIds == 0..MaxRequests

Next ==
    \/ \E peer_id \in cluster : TimeoutElection(peer_id)
    \/ \E peer_id \in cluster : TimeoutHeartbeat(peer_id)
    \/ \E peer_id \in cluster, request_id \in RequestIds :
            TransmitPeerRequest(peer_id, request_id)
    \/ \E peer_id \in cluster, request_id \in RequestIds :
            DropPeerRequest(peer_id, request_id)
    \/ \E peer_id, replied_peer_id \in cluster, request_id \in RequestIds :
            TransmitPeerReply(peer_id, replied_peer_id, request_id)
    \/ \E peer_id, replied_peer_id \in cluster, request_id \in RequestIds :
            DropPeerReply(peer_id, replied_peer_id, request_id)
    \/ \E peer_id \in cluster \cup {None} : ApplyCommitted(peer_id)
    \/ \E client_id \in ClientIds, peer_id \in cluster \cup {None}, command \in Commands :
            SendCommand(client_id, peer_id, command)
    \/ \E client_id \in ClientIds, request_id \in RequestIds :
            TransmitClientRequest(client_id, request_id)
    \/ \E peer_id \in cluster, client_id \in ClientIds, request_id \in RequestIds :
            TransmitClientReply(peer_id, client_id, request_id)
    \/ \E peer_id \in cluster, client_id \in ClientIds, request_id \in RequestIds :
            DropClientReply(peer_id, client_id, request_id)

---------------------------------------------------------------------------
(* Specifications.  A simulation is driven by a script; the state space    *)
(* is the union of the scenarios below, each a storage kind and a budget.  *)

\* number_of_peers of the test single_candidate_election
TestPeers == 5

\* Simulation::new over number_of_peers in-memory storages
InitCluster(number_of_peers, script_budget) ==
    /\ cluster = 1..number_of_peers
    /\ consistency = "Strong"
    /\ peers = [p \in 1..number_of_peers |-> NewPeer(p, "Memory")]
    /\ clients = [c \in ClientIds |-> NewClient(c)]
    /\ replay_peers = <<>>
    /\ budget = script_budget

\* election timeouts for the first peers, none for the others
Timeouts(allowed) ==
    [p \in 1..NumPeers |-> IF p \in DOMAIN allowed THEN allowed[p] ELSE 0]

\* peer 1 is a candidate with the vote of peer 2, and peer 2 will time out
Elections ==
    InitWith("Memory",
             Budget(Timeouts(<<1, 1>>), 0, 0, 0, 0,
                    << <<"TimeoutElection", 1>>, <<"TransmitPeerRequest", 1, 0>> >>))

\* The script after which peer 1, elected in term 1, and peer 3, elected in term
\* 2 with the votes of both others, are leaders in term 2; peer 3 has committed
\* its no-op entry and peer 1 has appended a command of the client.
TwoLeadersScript ==
    << <<"TimeoutElection", 1>>,
       <<"TransmitPeerRequest", 1, 0>>,
       <<"TransmitPeerReply", 2, 1, 0>>,
       <<"TransmitPeerRequest", 1, 2>>,
       <<"TransmitPeerRequest", 1, 3>>,
       <<"TimeoutElection", 3>>,
       <<"TransmitPeerRequest", 3, 0>>,
       <<"TransmitPeerRequest", 3, 1>>,
       <<"TransmitPeerReply", 1, 3, 0>>,
       <<"TransmitPeerRequest", 3, 3>>,
       <<"TransmitPeerReply", 2, 3, 3>>,
       <<"SendCommand", 1, 1>>,
       <<"TransmitClientRequest", 1, 0>> >>

TwoLeaders ==
    InitWith("Memory", Budget(Timeouts(<<1, 0, 1>>), 1, 1, 0, 0, TwoLeadersScript))

\* peers 1 and 2 are candidates of the same term
SplitVote ==
    InitWith("Memory",
             Budget(Timeouts(<<1, 1>>), 0, 0, 0, 0,
                    << <<"TimeoutElection", 1>>, <<"TimeoutElection", 2>> >>))

\* the script that elects peer 1 with the vote of peer 2 and replicates its
\* no-op entry to peer 2
ElectedScript ==
    << <<"TimeoutElection", 1>>,
       <<"TransmitPeerRequest", 1, 0>>,
       <<"TransmitPeerReply", 2, 1, 0>>,
       <<"TransmitPeerRequest", 1, 2>> >>

\* a leader whose no-op entry is on peer 2, and its heartbeats
Heartbeats ==
    InitWith("Memory",
             Budget(Timeouts(<<1>>), MaxHeartbeats, 0, 0, 0,
                    ElectedScript \o << <<"TimeoutHeartbeat", 1>> >>))

\* one peer times out twice
Reelection ==
    InitWith("Memory", Budget(Timeouts(<<2>>), 0, 0, 0, 0, <<>>))

\* a leader that has committed its no-op entry, a command of the client and a
\* dropped transmit
Commanded ==
    InitWith("Memory",
             Budget(Timeouts(<<1>>), 0, MaxCommands, MaxDrops, 0,
                    ElectedScript \o << <<"TransmitPeerReply", 2, 1, 2>> >>))

\* one election over file storages with a failing write
Failing ==
    InitWith("File", Budget(Timeouts(<<1>>), 0, 0, 0, MaxStorageFailures, <<>>))

\* The test's cluster: peer 2 is elected with the votes of peers 1 and 3 and its
\* no-op entry is on its way to the four others.
SingleCandidateScript ==
    << <<"TimeoutElection", 2>>,
       <<"TransmitPeerRequest", 2, 0>>,
       <<"TransmitPeerRequest", 2, 1>>,
       <<"TransmitPeerReply", 1, 2, 0>>,
       <<"TransmitPeerReply", 3, 2, 1>> >>

SingleCandidate ==
    InitCluster(TestPeers,
                Budget([p \in 1..TestPeers |-> IF p = 2 THEN 1 ELSE 0], 0, 0, 0, 0,
                       SingleCandidateScript))

\* a cluster of one peer, its election and heartbeat timeouts and a command
SinglePeer ==
    InitCluster(1, Budget([p \in 1..1 |-> 2], 1, 1, 0, 0, <<>>))

\* The script after which peer 1, Leader of term 1, holds its no-op entry alone,
\* and peer 3, Leader of term 2 with the vote of peer 2, sends heartbeats whose
\* previous entry is its own no-op entry; three more steps follow it.
ConflictScript ==
    << <<"TimeoutElection", 1>>,
       <<"TransmitPeerRequest", 1, 0>>,
       <<"TransmitPeerReply", 2, 1, 0>>,
       <<"TimeoutElection", 3>>,
       <<"TimeoutElection", 3>>,
       <<"TransmitPeerRequest", 3, 3>>,
       <<"TransmitPeerReply", 2, 3, 3>>,
       <<"TimeoutHeartbeat", 3>> >>

Conflict ==
    InitWith("Memory",
             [Budget(Timeouts(<<1, 0, 2>>), 1, 0, 0, 0, ConflictScript)
                EXCEPT !.steps = 3])

\* Over file storages: peer 3 is elected for term 2 and its RequestVote takes
\* Leader 1 into term 2; the heartbeat of peer 1 then reaches peer 3, whose
\* entry of index 1 conflicts, while the entry of peer 3 is on its way to peer 2.
OverwrittenScript ==
    SubSeq(ConflictScript, 1, 7)
        \o << <<"TransmitPeerRequest", 3, 2>>,
              <<"TimeoutHeartbeat", 1>>,
              <<"TransmitPeerRequest", 1, 5>>,
              <<"TransmitPeerRequest", 3, 5>> >>

Overwritten ==
    InitWith("File",
             [Budget(Timeouts(<<1, 0, 2>>), 1, 0, 0, 0, OverwrittenScript)
                EXCEPT !.steps = 2])

\* Over file storages with a failing write: Candidate 1 of term 1 is about to
\* hear from Candidate 2, which is in term 2.
FailingReplyScript ==
    << <<"TimeoutElection", 2>>,
       <<"TimeoutElection", 2>>,
       <<"TimeoutElection", 1>>,
       <<"TransmitPeerRequest", 1, 0>> >>

FailingReply ==
    InitWith("File",
             [Budget(Timeouts(<<1, 2>>), 0, 0, 0, MaxStorageFailures, FailingReplyScript)
                EXCEPT !.steps = 1])

\* peer 1 is Leader of term 2 and commits its entry with peer 3, which voted
\* for peer 2 in term 1; peer 2 stands again in term 3
SupersededScript ==
    << <<"TimeoutElection", 2>>, <<"TransmitPeerRequest", 2, 1>>,
       <<"TimeoutElection", 1>>, <<"TimeoutElection", 1>>,
       <<"TransmitPeerRequest", 1, 2>>, <<"TransmitPeerReply", 2, 1, 2>>,
       <<"TransmitPeerRequest", 1, 5>>, <<"TimeoutHeartbeat", 1>>,
       <<"TransmitPeerRequest", 1, 7>>, <<"TransmitPeerReply", 3, 1, 7>>,
       <<"TimeoutElection", 2>>, <<"TransmitPeerRequest", 2, 2>>,
       <<"TimeoutHeartbeat", 1>>, <<"TransmitPeerRequest", 1, 9>> >>

Superseded ==
    InitWith("Memory",
             [Budget(Timeouts(<<2, 2>>), MaxHeartbeats, 0, 0, 0, SupersededScript)
                EXCEPT !.steps = 2])

\* peer 1, Candidate of term 1, has refused its vote to peer 3 and its own
\* request has reached peer 2, Candidate of term 2
OutvotedScript ==
    << <<"TimeoutElection", 1>>, <<"TimeoutElection", 3>>,
       <<"TransmitPeerRequest", 3, 0>>, <<"TimeoutElection", 2>>,
       <<"TimeoutElection", 2>>, <<"TransmitPeerRequest", 1, 0>> >>

Outvoted ==
    InitWith("Memory",
             [Budget(Timeouts(<<1, 2, 1>>), 0, 0, 0, 0, OutvotedScript)
                EXCEPT !.steps = 2])

\* peer 1, Leader of term 1, is elected again in term 2 with the vote of peer 2,
\* which has answered the AppendEntries of the first leadership in term 2
ReelectedScript ==
    << <<"TimeoutElection", 1>>, <<"TransmitPeerRequest", 1, 0>>,
       <<"TransmitPeerReply", 2, 1, 0>>, <<"TimeoutElection", 1>>,
       <<"TransmitPeerRequest", 1, 4>>, <<"TransmitPeerRequest", 1, 2>>,
       <<"TransmitPeerReply", 2, 1, 4>> >>

Reelected ==
    InitWith("Memory",
             [Budget(Timeouts(<<2>>), 0, 0, 0, 0, ReelectedScript) EXCEPT !.steps = 2])

\* a Leader over file storages, a command of the client and a failing write
FailingCommand ==
    InitWith("File",
             [Budget(Timeouts(<<1>>), 0, MaxCommands, 0, MaxStorageFailures,
                     << <<"TimeoutElection", 1>>, <<"TransmitPeerRequest", 1, 0>>,
                        <<"TransmitPeerReply", 2, 1, 0>>, <<"SendCommand", 1, 1>> >>)
                EXCEPT !.steps = 2])

Init ==
    \/ Elections
    \/ Heartbeats
    \/ Reelection
    \/ Commanded
    \/ Failing
    \/ TwoLeaders
    \/ SplitVote
    \/ SingleCandidate
    \/ SinglePeer
    \/ Conflict
    \/ Overwritten
    \/ FailingReply
    \/ Superseded
    \/ Outvoted
    \/ Reelected
    \/ FailingCommand

Spec == Init /\ [][Next]_vars

---------------------------------------------------------------------------
(* The run of the test single_candidate_election, in any order that        *)
(* delivers the transmits of each peer as they were enqueued: one peer     *)
(* times out, nothing is dropped, the leader's heartbeat fires once its    *)
(* commit_index has advanced, and ApplyCommitted is run on all peers.      *)

\* the steps of the longest such run: the timeout, a request and a reply per
\* other peer for the votes, the no-op entry and the heartbeat, the heartbeat
\* timeout, and an ApplyCommitted per peer
ElectionSteps == 1 + (6 * (TestPeers - 1)) + 1 + TestPeers

\* the peer whose election times out in the test
TestCandidate == 2

ElectionInit ==
    InitCluster(TestPeers,
                [Budget([p \in 1..TestPeers |-> IF p = TestCandidate THEN 1 ELSE 0],
                        1, 0, 0, 0, <<>>)
                    EXCEPT !.steps = ElectionSteps])

\* the transmit the peer enqueued first is the next one to be delivered
IsNext(peer_id, kind) ==
    /\ peers[peer_id].buffered_peer_transmits # <<>>
    /\ IF kind = "request"
       THEN is_request(Head(peers[peer_id].buffered_peer_transmits).message)
       ELSE is_reply(Head(peers[peer_id].buffered_peer_transmits).message)

ElectionNext ==
    \/ \E peer_id \in cluster : TimeoutElection(peer_id)
    \/ \E peer_id \in cluster, request_id \in RequestIds :
            /\ IsNext(peer_id, "request")
            /\ Head(peers[peer_id].buffered_peer_transmits).request_id = request_id
            /\ TransmitPeerRequest(peer_id, request_id)
    \/ \E peer_id, replied_peer_id \in cluster, request_id \in RequestIds :
            /\ IsNext(peer_id, "reply")
            /\ Head(peers[peer_id].buffered_peer_transmits).peer_id = replied_peer_id
            /\ Head(peers[peer_id].buffered_peer_transmits).request_id = request_id
            /\ TransmitPeerReply(peer_id, replied_peer_id, request_id)
    \/ \E peer_id \in cluster :
            /\ peers[peer_id].commit_index > 0
            /\ TimeoutHeartbeat(peer_id)
    \/ ApplyCommitted(None)

\* The script of the run performs every step that is possible: a run that stops
\* while a transmit is queued, the heartbeat is due or an entry is to be applied
\* is not a run of the test.
ElectionSpec == ElectionInit /\ [][ElectionNext]_vars /\ WF_vars(ElectionNext)

---------------------------------------------------------------------------
(* The requests of a client under both consistencies: peer 1 is Leader,     *)
(* peer 2 its Follower, peer 3 a Follower without a leader whose election   *)
(* may time out, and the client sends a command or a query to any of them.  *)

RequestInit ==
    /\ cluster = 1..NumPeers
    /\ consistency \in {"Strong", "Eventual"}
    /\ peers = [p \in 1..NumPeers |-> NewPeer(p, "Memory")]
    /\ clients = [c \in ClientIds |-> NewClient(c)]
    /\ replay_peers = <<>>
    /\ budget = [Budget(Timeouts(<<1, 0, 1>>), 0, MaxCommands, 0, 0, ElectedScript)
                    EXCEPT !.steps = MaxSteps - 3]

RequestNext ==
    \/ \E peer_id \in cluster : TimeoutElection(peer_id)
    \/ \E peer_id \in cluster, request_id \in RequestIds :
            TransmitPeerRequest(peer_id, request_id)
    \/ \E peer_id, replied_peer_id \in cluster, request_id \in RequestIds :
            TransmitPeerReply(peer_id, replied_peer_id, request_id)
    \/ \E client_id \in ClientIds, peer_id \in cluster, command \in Commands :
            SendCommand(client_id, peer_id, command)
    \/ \E client_id \in ClientIds, peer_id \in cluster, query \in Queries :
            SendQuery(client_id, peer_id, query)
    \/ \E client_id \in ClientIds, request_id \in RequestIds :
            TransmitClientRequest(client_id, request_id)

RequestSpec == RequestInit /\ [][RequestNext]_vars

---------------------------------------------------------------------------
(* A cluster of one peer: its election timeout makes it Leader at once      *)
(* (peer.rs:157-160).  The script performs every step that is possible,     *)
(* ApplyCommitted included, which is a step also when there is nothing to   *)
(* apply.                                                                   *)

\* the one peer of the cluster
SoloPeer == 1

SoloInit ==
    /\ InitCluster(SoloPeer,
                   Budget([p \in 1..SoloPeer |-> MaxTerm], MaxHeartbeats, MaxCommands,
                          0, 0, <<>>))

\* Action::ApplyCommitted on every peer, whether or not it has entries to apply
ApplyCommittedAll ==
    /\ NoPanic
    /\ Scripted(<<"ApplyCommitted", None>>)
    /\ peers' = [p \in cluster |-> apply_committed(peers[p])]
    /\ budget' = Advance(budget)
    /\ UNCHANGED <<replay_peers, cluster, consistency, clients>>

SoloNext ==
    \/ TimeoutElection(SoloPeer)
    \/ TimeoutHeartbeat(SoloPeer)
    \/ \E client_id \in ClientIds, command \in Commands :
            SendCommand(client_id, SoloPeer, command)
    \/ \E client_id \in ClientIds, request_id \in RequestIds :
            TransmitClientRequest(client_id, request_id)
    \/ \E client_id \in ClientIds, request_id \in RequestIds :
            TransmitClientReply(SoloPeer, client_id, request_id)
    \/ ApplyCommittedAll

SoloSpec == SoloInit /\ [][SoloNext]_vars /\ WF_vars(SoloNext)

---------------------------------------------------------------------------
(* The plural actions of the simulator, and the errors of the singular     *)
(* ones.  Simulation::run stops at the first action that returns an error. *)

\* the budget after an action that returned an error: the run is over
Failed(spent) ==
    [spent EXCEPT !.error = TRUE, !.steps = 0, !.script = <<>>]

\* the kind of transmit an action is about
OfKind(kind, transmit) ==
    IF kind = "request" THEN is_request(transmit.message) ELSE is_reply(transmit.message)

\* what a plural action names a transmit by: the request id of a request, the
\* replied peer and the request id of a reply
NamedBy(kind, transmit) ==
    IF kind = "request" THEN transmit.request_id
    ELSE <<transmit.peer_id, transmit.request_id>>

\* ids.iter().position(|candidate| *candidate == id), from 1, 0 for None
IdPosition(ids, id) ==
    LET matching == {k \in DOMAIN ids : ids[k] = id}
    IN IF matching = {} THEN 0 ELSE CHOOSE k \in matching : \A j \in matching : k <= j

\* whether the loop over the taken queue moves the transmit to ordered_transmits
IsOrdered(kind, transmit, ids) ==
    OfKind(kind, transmit) /\ IdPosition(ids, NamedBy(kind, transmit)) # 0

\* new_buffered_transmits: the transmits of the queue the action does not name
new_buffered_transmits(kind, transmits, ids) ==
    SelectSeq(transmits, LAMBDA transmit : ~IsOrdered(kind, transmit, ids))

\* the named transmits in the order of the queue
queue_ordered_transmits(kind, transmits, ids) ==
    SelectSeq(transmits, LAMBDA transmit : IsOrdered(kind, transmit, ids))

\* ordered_transmits.into_values(): the named transmits by position in ids; of
\* two transmits inserted at one position the later one replaces the earlier
ordered_transmits(kind, transmits, ids) ==
    LET at(k) == {i \in DOMAIN transmits :
                    /\ IsOrdered(kind, transmits[i], ids)
                    /\ IdPosition(ids, NamedBy(kind, transmits[i])) = k}
        positions == Ascending({k \in DOMAIN ids : at(k) # {}})
    IN [n \in 1..Len(positions) |->
            transmits[CHOOSE i \in at(positions[n]) : \A j \in at(positions[n]) : i >= j]]

\* the ids left in non_existing_request_ids after the loop over ordered_transmits
non_existing_ids(kind, transmits, ids) ==
    {ids[k] : k \in DOMAIN ids}
        \ {NamedBy(kind, transmits[i]) : i \in {j \in DOMAIN transmits :
                                                    IsOrdered(kind, transmits[j], ids)}}

\* the loop that hands the ordered transmits of peer_id to their target peers
RECURSIVE DeliverTransmits(_, _, _, _)
DeliverTransmits(next_peers, peer_id, transmits, ok) ==
    IF transmits = <<>> THEN next_peers
    ELSE DeliverTransmits(
            [next_peers EXCEPT ![Head(transmits).peer_id] =
                receive_peer_message(@, peer_id, Head(transmits).request_id,
                                     Head(transmits).message, ok, ok)],
            peer_id, Tail(transmits), ok)

\* A plural action on the queue of peer_id: the queue is taken (left empty), the
\* named transmits are delivered if the action transmits, and the queue is set to
\* new_buffered_transmits only if every id named a transmit; else the action
\* returns an error before that assignment.
PerformPlural(kind, transmitting, peer_id, ids, ok) ==
    LET transmits == peers[peer_id].buffered_peer_transmits
        taken == [peers EXCEPT ![peer_id].buffered_peer_transmits = <<>>]
        handled == IF transmitting
                   THEN DeliverTransmits(taken, peer_id,
                                         ordered_transmits(kind, transmits, ids), ok)
                   ELSE taken
    IN IF non_existing_ids(kind, transmits, ids) # {}
       THEN [peers |-> handled, error |-> TRUE]
       ELSE [peers |-> [handled EXCEPT ![peer_id].buffered_peer_transmits =
                            new_buffered_transmits(kind, transmits, ids)],
             error |-> FALSE]

\* the step of a plural action of the script
PluralAction(name, kind, transmitting, peer_id, ids) ==
    /\ NoPanic
    /\ Scripted(<<name, peer_id, ids>>)
    /\ transmitting \/ budget.drops > 0
    /\ \E ok \in Outcomes(peer_id) :
        \E performed \in {PerformPlural(kind, transmitting, peer_id, ids, ok)},
           performed_ok \in {PerformPlural(kind, transmitting, peer_id, ids, TRUE)} :
            /\ WithinBounds(performed_ok.peers)
            /\ ok \/ performed.peers # performed_ok.peers
            /\ peers' = performed.peers
            /\ LET spent == [budget EXCEPT
                                !.drops = IF transmitting THEN @ ELSE @ - 1,
                                !.storage_failures = IF ok THEN @ ELSE @ - 1]
               IN budget' = IF performed.error THEN Failed(spent) ELSE Advance(spent)
    /\ UNCHANGED <<replay_peers, cluster, consistency, clients>>

TransmitPeerRequests(peer_id, request_ids) ==
    PluralAction("TransmitPeerRequests", "request", TRUE, peer_id, request_ids)

DropPeerRequests(peer_id, request_ids) ==
    PluralAction("DropPeerRequests", "request", FALSE, peer_id, request_ids)

TransmitPeerReplies(peer_id, replied_peer_ids_and_request_ids) ==
    PluralAction("TransmitPeerReplies", "reply", TRUE, peer_id,
                 replied_peer_ids_and_request_ids)

DropPeerReplies(peer_id, replied_peer_ids_and_request_ids) ==
    PluralAction("DropPeerReplies", "reply", FALSE, peer_id,
                 replied_peer_ids_and_request_ids)

\* whether the queue of peer_id holds no transmit of the kind under the id
IsMissing(kind, peer_id, id) ==
    \A i \in DOMAIN peers[peer_id].buffered_peer_transmits :
        LET transmit == peers[peer_id].buffered_peer_transmits[i]
        IN ~(OfKind(kind, transmit) /\ NamedBy(kind, transmit) = id)

\* TransmitPeerRequest, DropPeerRequest, TransmitPeerReply or DropPeerReply of a
\* transmit that does not exist: position is None and the action returns an error
MissingTransmit(kind, peer_id, id) ==
    /\ NoPanic
    /\ Scripted(<<"MissingTransmit", kind, peer_id, id>>)
    /\ IsMissing(kind, peer_id, id)
    /\ budget' = Failed(budget)
    /\ UNCHANGED <<replay_peers, cluster, consistency, peers, clients>>

\* the lists of at most MaxIds ids over the given ids
IdLists(ids) ==
    UNION {[1..n -> ids] : n \in 1..MaxIds}

\* The ids a plural action of the script names: those of the queued transmits of
\* the kind, and one that names none (the next request id of the peer, or a reply
\* to the peer itself).
NamedIds(kind, peer_id) ==
    LET transmits == peers[peer_id].buffered_peer_transmits
    IN {NamedBy(kind, transmits[i]) :
            i \in {j \in DOMAIN transmits : OfKind(kind, transmits[j])}}
        \cup (IF kind = "request" THEN {peers[peer_id].request_counter}
              ELSE {<<peer_id, 0>>})

\* a candidate, its election and what becomes of its transmits
PluralInit ==
    InitWith("Memory",
             [Budget(Timeouts(<<1>>), 1, 0, MaxDrops, 0, << <<"TimeoutElection", 1>> >>)
                EXCEPT !.steps = MaxSteps - 3])

PluralNext ==
    \/ \E peer_id \in cluster : TimeoutElection(peer_id)
    \/ \E peer_id \in cluster : TimeoutHeartbeat(peer_id)
    \/ \E peer_id \in cluster : \E request_ids \in IdLists(NamedIds("request", peer_id)) :
            TransmitPeerRequests(peer_id, request_ids)
    \/ \E peer_id \in cluster : \E request_ids \in IdLists(NamedIds("request", peer_id)) :
            DropPeerRequests(peer_id, request_ids)
    \/ \E peer_id \in cluster : \E ids \in IdLists(NamedIds("reply", peer_id)) :
            TransmitPeerReplies(peer_id, ids)
    \/ \E peer_id \in cluster : \E ids \in IdLists(NamedIds("reply", peer_id)) :
            DropPeerReplies(peer_id, ids)
    \/ \E kind \in {"request", "reply"}, peer_id \in cluster :
            \E id \in NamedIds(kind, peer_id) : MissingTransmit(kind, peer_id, id)

PluralSpec == PluralInit /\ [][PluralNext]_vars

---------------------------------------------------------------------------
(* The storages on their own: one peer over each storage implementation,   *)
(* whose log is appended to and truncated through the Storage trait.       *)

StorageInit ==
    \E storage \in StorageKinds :
        /\ cluster = {1}
        /\ consistency = "Strong"
        /\ peers = [p \in {1} |-> NewPeer(p, storage)]
        /\ clients = [c \in ClientIds |-> NewClient(c)]
        /\ replay_peers = <<>>
        /\ budget = Budget([p \in {1} |-> 0], 0, 0, 0, MaxStorageFailures, <<>>)

\* Storage::append_log_entry of the next entry of the log
AppendLogEntry(peer_id, term, command) ==
    /\ budget.steps > 0
    /\ Len(peers[peer_id].log) < MaxLog
    /\ \E ok \in Outcomes(peer_id) :
        LET entry == LogEntry(LogIndexNext(LastLogIndex(peers[peer_id])), term, command)
        IN /\ peers' = [peers EXCEPT ![peer_id] = append_log_entry(@, entry, ok)]
           /\ budget' = [budget EXCEPT
                            !.steps = @ - 1,
                            !.storage_failures = IF ok THEN @ ELSE @ - 1]
    /\ UNCHANGED <<replay_peers, cluster, consistency, clients>>

\* Storage::truncate_log
TruncateLog(peer_id, down_to) ==
    /\ budget.steps > 0
    /\ peers' = [peers EXCEPT ![peer_id] = truncate_log(@, down_to)]
    /\ budget' = [budget EXCEPT !.steps = @ - 1]
    /\ UNCHANGED <<replay_peers, cluster, consistency, clients>>

StorageNext ==
    \/ \E peer_id \in cluster, term \in 1..MaxTerm, command \in {NoOp} \cup Commands :
            AppendLogEntry(peer_id, term, command)
    \/ \E peer_id \in cluster, down_to \in 0..(MaxLog + 1) :
            TruncateLog(peer_id, down_to)

StorageSpec == StorageInit /\ [][StorageNext]_vars

---------------------------------------------------------------------------
(* Checks against the replay peers (src/utilities/simulator/src/update.rs  *)
(* and Simulation::check): an Update is the changes to make to one replay  *)
(* peer, a Check applies its updates and compares every live peer with its *)
(* replay peer.  The replay storages are in-memory, their writes succeed.  *)

\* the fields of a peer a Change overwrites, in the order of the enum
Fields ==
    <<"current_term", "voted_for", "log", "snapshot", "commit_index", "last_applied",
      "role", "machine", "buffered_peer_transmits", "buffered_client_transmits">>

Change(field, value) == [field |-> field, value |-> value]

\* Update::peer(peer_id) followed by its setters
Update(peer_id, changes) == [peer_id |-> peer_id, changes |-> changes]

\* Peer::set_log: the log is truncated down to index 0 and the entries appended
set_log(peer, new_log) == AppendAll(truncate_log(peer, 0), new_log)

\* one arm of the match of Update::apply_to
ApplyChange(peer, change) ==
    CASE change.field = "current_term" -> set_current_term(peer, change.value, TRUE)
      [] change.field = "voted_for" -> set_voted_for(peer, change.value, TRUE)
      [] change.field = "log" -> set_log(peer, change.value)
      [] change.field = "snapshot" -> [peer EXCEPT !.snapshot = change.value]
      [] change.field = "commit_index" -> [peer EXCEPT !.commit_index = change.value]
      [] change.field = "last_applied" -> [peer EXCEPT !.last_applied = change.value]
      [] change.field = "role" -> [peer EXCEPT !.role = change.value]
      [] change.field = "machine" -> [peer EXCEPT !.machine = change.value]
      [] change.field = "buffered_peer_transmits" ->
            [peer EXCEPT !.buffered_peer_transmits = change.value]
      [] change.field = "buffered_client_transmits" ->
            [peer EXCEPT !.buffered_client_transmits = change.value]

\* the loop of Update::apply_to over the changes of the update
RECURSIVE ApplyChanges(_, _)
ApplyChanges(peer, changes) ==
    IF changes = <<>> THEN peer
    ELSE ApplyChanges(ApplyChange(peer, Head(changes)), Tail(changes))

apply_to(update, replay) ==
    [replay EXCEPT ![update.peer_id] = ApplyChanges(@, update.changes)]

\* the loop of the Check arm over its updates
RECURSIVE ApplyUpdates(_, _)
ApplyUpdates(replay, updates) ==
    IF updates = <<>> THEN replay
    ELSE ApplyUpdates(apply_to(Head(updates), replay), Tail(updates))

\* Faulty variant of Simulation::check: the roles are not compared.
checkWithoutRole(actual, expected) ==
    /\ expected.current_term = actual.current_term
    /\ expected.voted_for = actual.voted_for
    /\ expected.log = actual.log
    /\ expected.snapshot = actual.snapshot
    /\ expected.commit_index = actual.commit_index
    /\ expected.last_applied = actual.last_applied
    /\ expected.machine = actual.machine
    /\ expected.buffered_peer_transmits = actual.buffered_peer_transmits

\* Simulation::check: TRUE for Ok(()), FALSE for the error of the first
\* property that differs
check(actual, expected) ==
    /\ expected.current_term = actual.current_term
    /\ expected.voted_for = actual.voted_for
    /\ expected.log = actual.log
    /\ expected.snapshot = actual.snapshot
    /\ expected.commit_index = actual.commit_index
    /\ expected.last_applied = actual.last_applied
    /\ expected.role = actual.role
    /\ expected.machine = actual.machine
    /\ expected.buffered_peer_transmits = actual.buffered_peer_transmits

\* Action::Check: without replay peers an error; otherwise the updates are
\* applied and the peers compared, the first difference being the error
Check(updates) ==
    /\ NoPanic
    /\ Scripted(<<"Check">>)
    /\ IF replay_peers = <<>>
       THEN /\ budget' = Failed(budget)
            /\ UNCHANGED replay_peers
       ELSE \E next_replay_peers \in {ApplyUpdates(replay_peers, updates)} :
                /\ replay_peers' = next_replay_peers
                /\ budget' = IF \A p \in cluster : check(peers[p], next_replay_peers[p])
                             THEN Advance(budget)
                             ELSE Failed(budget)
    /\ UNCHANGED <<cluster, consistency, peers, clients>>

\* the changes that bring every property of the replay peer to the live peer's
Expected(peer_id) ==
    [i \in DOMAIN Fields |-> Change(Fields[i], peers[peer_id][Fields[i]])]

\* the values a change of the field is tried with: the ones of the live peers
\* and the one of a new peer
FieldValues(field) ==
    {peers[q][field] : q \in cluster} \cup {NewPeer(1, "Memory")[field]}

\* The updates a Check is tried with: the expected state of every peer
\* ("exact") or of one peer ("single"); and the expected state of every peer
\* with, for one peer, one more change ahead of ("before") or after ("after")
\* the others, or the change of one field left out ("without").
UpdateKinds == {"exact", "single", "before", "after", "without"}

TriedUpdates(kind, peer_id, field, value) ==
    LET exact == [p \in cluster |-> Update(p, Expected(p))]
    IN CASE kind = "exact" -> exact
         [] kind = "single" -> <<exact[peer_id]>>
         [] kind = "before" ->
                [exact EXCEPT ![peer_id].changes = <<Change(field, value)>> \o @]
         [] kind = "after" ->
                [exact EXCEPT ![peer_id].changes = @ \o <<Change(field, value)>>]
         [] kind = "without" ->
                [exact EXCEPT ![peer_id].changes =
                    SelectSeq(@, LAMBDA change : change.field # field)]

\* a Check with one of the updates above
Checked ==
    \/ \E peer_id \in cluster, kind \in {"exact", "single"} :
            Check(TriedUpdates(kind, peer_id, Fields[1], 0))
    \/ \E peer_id \in cluster, i \in DOMAIN Fields :
            \/ Check(TriedUpdates("without", peer_id, Fields[i], 0))
            \/ \E kind \in {"before", "after"}, value \in FieldValues(Fields[i]) :
                    Check(TriedUpdates(kind, peer_id, Fields[i], value))

\* Simulation::new followed by enable_checks over in-memory storages; the script
\* times out peer 1 and may send the commands
CheckInit ==
    /\ cluster = 1..NumPeers
    /\ consistency = "Strong"
    /\ peers = [p \in 1..NumPeers |-> NewPeer(p, "Memory")]
    /\ clients = [c \in ClientIds |-> NewClient(c)]
    /\ replay_peers = [p \in 1..NumPeers |-> NewPeer(p, "Memory")]
    /\ budget = [Budget(Timeouts(<<1>>), 0, MaxCommands, 0, 0,
                        << <<"TimeoutElection", 1>> >>)
                    EXCEPT !.steps = MaxSteps - 3]

CheckNext ==
    \/ \E peer_id \in cluster : TimeoutElection(peer_id)
    \/ \E peer_id \in cluster, request_id \in RequestIds :
            TransmitPeerRequest(peer_id, request_id)
    \/ \E client_id \in ClientIds, peer_id \in cluster, command \in Commands :
            SendCommand(client_id, peer_id, command)
    \/ \E client_id \in ClientIds, request_id \in RequestIds :
            TransmitClientRequest(client_id, request_id)
    \/ Checked

CheckSpec == CheckInit /\ [][CheckNext]_vars

---------------------------------------------------------------------------
(* A client on its own: Client::command and Client::receive_reply are the  *)
(* client's interface to whatever carries its transmits, which may hand it *)
(* a reply to any request id.                                              *)

\* the request ids a reply may carry: the ones the client may issue and one more
ReplyIds == 0..MaxCommands

\* Client::receive_reply of a CommandReply of the peer
ReceiveReply(client_id, peer_id, request_id, reply) ==
    /\ budget.steps > 0
    /\ clients' = [clients EXCEPT ![client_id] =
                        CommandReplyReceive(reply, peer_id, request_id, @)]
    /\ budget' = Advance(budget)
    /\ UNCHANGED <<replay_peers, cluster, consistency, peers>>

ClientInit ==
    InitWith("Memory", [Budget(Timeouts(<<>>), 0, MaxCommands, 0, 0, <<>>)
                            EXCEPT !.steps = MaxSteps - 3])

ClientNext ==
    \/ \E client_id \in ClientIds, peer_id \in cluster \cup {None}, command \in Commands :
            SendCommand(client_id, peer_id, command)
    \/ \E client_id \in ClientIds, peer_id \in cluster, request_id \in ReplyIds :
            \E reply \in {CommandReplyErr("LeaderChanged", new_leader_id) :
                                new_leader_id \in cluster}
                            \cup {CommandReplyErr("LeaderUnknown", None)} :
                ReceiveReply(client_id, peer_id, request_id, reply)

ClientSpec == ClientInit /\ [][ClientNext]_vars

---------------------------------------------------------------------------
(* Properties.                                                             *)

Leaders(term) ==
    {p \in cluster : peers[p].role.kind = "Leader" /\ peers[p].current_term = term}

\* C1 (Election Safety): at any moment at most one peer is Leader for any given
\* value of current_term.
ElectionSafety ==
    \A term \in 0..MaxTerm : Cardinality(Leaders(term)) <= 1

\* C2 (Apply consistency): any two peers that applied an index applied the same
\* command at it, and two peers that applied the same indices hold equal machines.
ApplyConsistency ==
    \A p, q \in cluster :
        /\ \A i \in DOMAIN peers[p].applied, j \in DOMAIN peers[q].applied :
                peers[p].applied[i].index = peers[q].applied[j].index
                    => peers[p].applied[i].command = peers[q].applied[j].command
        /\ peers[p].last_applied = peers[q].last_applied
                => peers[p].machine = peers[q].machine

\* C3 (Log contiguity): the indices of every log are snapshot.last_included_index
\* + 1, + 2, ... in order, without a gap and without a repeated index.
LogContiguity ==
    \A p \in cluster :
        \A i \in DOMAIN peers[p].log :
            peers[p].log[i].index = peers[p].snapshot.last_included_index + i

\* C4 (Commit monotonicity): no step lowers the commit_index or the last_applied
\* of a peer.
CommitMonotonicity ==
    [][\A p \in cluster :
            /\ peers'[p].commit_index >= peers[p].commit_index
            /\ peers'[p].last_applied >= peers[p].last_applied]_vars

\* C5: every peer has last_applied <= commit_index.
AppliedWithinCommitted ==
    \A p \in cluster : peers[p].last_applied <= peers[p].commit_index

\* C6 (Monotonic term): no step lowers the current_term of a peer.
TermMonotonicity ==
    [][\A p \in cluster : peers'[p].current_term >= peers[p].current_term]_vars

\* a leader and a follower that entered the leader's term, the second or a later one
TermsRaised ==
    \E p, q \in cluster :
        /\ peers[p].role.kind = "Leader"
        /\ peers[p].current_term >= 2
        /\ peers[q].role.kind = "Follower"
        /\ peers[q].role.leader_id = p
        /\ peers[q].current_term = peers[p].current_term

\* C7 (Single vote per term): a step that keeps a peer's current_term either
\* keeps its voted_for or changes it from None to some peer.
SingleVotePerTerm ==
    [][\A p \in cluster :
            peers'[p].current_term = peers[p].current_term
                => \/ peers'[p].voted_for = peers[p].voted_for
                   \/ (peers[p].voted_for = None /\ peers'[p].voted_for # None)]_vars

\* a peer that voted for a candidate has denied another candidate of the same term
SecondCandidateDenied ==
    \E p, q \in cluster :
        /\ q # p
        /\ peers[p].voted_for = q
        /\ \E i \in DOMAIN peers[p].buffered_peer_transmits :
            LET transmit == peers[p].buffered_peer_transmits[i]
            IN /\ transmit.message.type = "RequestVoteReply"
               /\ transmit.message.vote = "NotGrantedDueToBeingGrantedToAnotherPeer"
               /\ transmit.message.term = peers[p].current_term
               /\ transmit.peer_id \notin {p, q}

\* the step made peer p enqueue a RequestVoteReply to candidate
AnsweredRequestVote(p, candidate) ==
    LET before == peers[p].buffered_peer_transmits
        after == peers'[p].buffered_peer_transmits
    IN /\ Len(after) = Len(before) + 1
       /\ after[Len(after)].message.type = "RequestVoteReply"
       /\ after[Len(after)].peer_id = candidate

\* C8: after a step that raises a peer's current_term its voted_for is None, the
\* peer itself, or the candidate whose RequestVote the step handled.
VoteResetOnNewTerm ==
    [][\A p \in cluster :
            peers'[p].current_term > peers[p].current_term
                => \/ peers'[p].voted_for = None
                   \/ peers'[p].voted_for = p
                   \/ AnsweredRequestVote(p, peers'[p].voted_for)]_vars

\* the RequestVote of the candidate's queue that request_id names
RequestVoteOf(candidate, request_id) ==
    LET transmits == peers[candidate].buffered_peer_transmits
    IN transmits[RequestPosition(transmits, request_id)].message

\* C9 (Up-to-date vote): a step that enqueues a Granted RequestVoteReply answers a
\* RequestVote whose (last_log_term, last_log_index) is lexicographically at least
\* the voter's last (term, index).
UpToDateVote ==
    [][\A p, candidate \in cluster :
            (/\ AnsweredRequestVote(p, candidate)
             /\ peers'[p].buffered_peer_transmits[
                    Len(peers'[p].buffered_peer_transmits)].message.vote = "Granted")
                => LET reply == peers'[p].buffered_peer_transmits[
                                    Len(peers'[p].buffered_peer_transmits)]
                       request == RequestVoteOf(candidate, reply.request_id)
                   IN \/ request.last_log_term > LastLogTerm(peers[p])
                      \/ /\ request.last_log_term = LastLogTerm(peers[p])
                         /\ request.last_log_index >= LastLogIndex(peers[p])]_vars

\* C10: every Candidate has voted for itself.
CandidateVotedForSelf ==
    \A p \in cluster : peers[p].role.kind = "Candidate" => peers[p].voted_for = p

\* the step delivered to Leader p a successful AppendEntriesReply of peer q, of p's
\* current term, that answers a request p recorded
HandledSuccessfulReply(p, q) ==
    /\ peers[p].role.kind = "Leader"
    /\ \E i \in DOMAIN peers[q].buffered_peer_transmits :
        LET transmit == peers[q].buffered_peer_transmits[i]
        IN /\ transmit.peer_id = p
           /\ transmit.message.type = "AppendEntriesReply"
           /\ transmit.message.success
           /\ transmit.message.term = peers[p].current_term
           /\ transmit.request_id \in DOMAIN peers[p].role.append_entries_requests
           /\ i = ReplyPosition(peers[q].buffered_peer_transmits, p, transmit.request_id)
           /\ peers'[q].buffered_peer_transmits
                  = RemoveAt(peers[q].buffered_peer_transmits, i)
           /\ peers'[p].role.kind = "Leader"
           /\ transmit.request_id \notin DOMAIN peers'[p].role.append_entries_requests

\* the peers other than p that p knows to hold index V
KnownReplicas(p, V) ==
    {o \in cluster \ {p} : peers'[p].role.match_index[o] >= V}

\* C11: after a Leader handles a successful AppendEntriesReply, every index of its
\* log that it and the peers it knows to hold it make a majority for is committed.
MajorityReplicatedCommitted ==
    [][\A p, q \in cluster :
            HandledSuccessfulReply(p, q)
                => \A V \in 1..LastLogIndex(peers'[p]) :
                        Cardinality(KnownReplicas(p, V)) + 1 >= majority
                            => peers'[p].commit_index >= V]_vars

\* the peers whose match_index, on Leader p after the step, is at least V
Replicas(p, V) ==
    {o \in DOMAIN peers'[p].role.match_index : peers'[p].role.match_index[o] >= V}

\* the values of match_index above the old commit_index that a majority has reached
Committable(p) ==
    {V \in {peers'[p].role.match_index[o] : o \in DOMAIN peers'[p].role.match_index} :
        /\ V > peers[p].commit_index
        /\ Cardinality(Replicas(p, V)) >= (Cardinality(cluster) \div 2) + 1}

\* C12: a Leader that handles a successful AppendEntriesReply sets commit_index to
\* the greatest of its old value and of the values of match_index above it that a
\* majority has reached; with 5 peers the no-op entry commits exactly when three
\* peers, the Leader among them, have match_index 1.
CommitRecomputed ==
    [][\A p, q \in cluster :
            HandledSuccessfulReply(p, q)
                => /\ \A V \in Committable(p) \cup {peers[p].commit_index} :
                            peers'[p].commit_index >= V
                   /\ peers'[p].commit_index \in Committable(p) \cup {peers[p].commit_index}
                   /\ (Cardinality(cluster) = TestPeers /\ peers[p].commit_index = 0)
                        => (peers'[p].commit_index = 1
                                <=> Cardinality(Replicas(p, 1)) >= 3)]_vars

\* a Leader of 5 peers has committed its no-op entry with the third match_index
ThirdPeerCommitted ==
    \E p \in cluster :
        /\ Cardinality(cluster) = TestPeers
        /\ peers[p].role.kind = "Leader"
        /\ peers[p].commit_index = 1
        /\ Cardinality({o \in cluster : peers[p].role.match_index[o] >= 1}) = 3

\* the AppendEntries transmits peer p enqueued in the step
Enqueued(p) ==
    SubSeq(peers'[p].buffered_peer_transmits,
           Len(peers[p].buffered_peer_transmits) + 1,
           Len(peers'[p].buffered_peer_transmits))

\* C13: a peer that becomes Leader with last log position (I, T) appends the no-op
\* entry (I + 1, current_term), enqueues one AppendEntries with prev (I, T), that
\* entry and its commit_index per other peer, under fresh request ids that it
\* records, and sets next_index to I + 2 for the others, match_index to I + 1 for
\* itself and to the snapshot's last index for the others.
LeaderInitialised ==
    [][\A p \in cluster :
            (peers[p].role.kind # "Leader" /\ peers'[p].role.kind = "Leader")
                => LET I == LastLogIndex(peers[p])
                       T == LastLogTerm(peers[p])
                       after == peers'[p]
                       no_op == after.log[Len(after.log)]
                       sent == Enqueued(p)
                   IN /\ Len(after.log) = Len(peers[p].log) + 1
                      /\ SubSeq(after.log, 1, Len(peers[p].log)) = peers[p].log
                      /\ no_op.index = I + 1
                      /\ no_op.term = after.current_term
                      /\ no_op.command.kind = "NoOp"
                      /\ SubSeq(after.buffered_peer_transmits, 1,
                                Len(peers[p].buffered_peer_transmits))
                            = peers[p].buffered_peer_transmits
                      /\ Len(sent) = Cardinality(cluster) - 1
                      /\ {sent[i].peer_id : i \in DOMAIN sent} = cluster \ {p}
                      /\ \A i \in DOMAIN sent :
                            /\ sent[i].message.type = "AppendEntriesRequest"
                            /\ sent[i].message.term = after.current_term
                            /\ sent[i].message.leader_id = p
                            /\ sent[i].message.prev_log_index = I
                            /\ sent[i].message.prev_log_term = T
                            /\ sent[i].message.entries = <<no_op>>
                            /\ sent[i].message.leader_commit = after.commit_index
                            /\ sent[i].request_id >= peers[p].request_counter
                            /\ sent[i].request_id < after.request_counter
                            /\ \A j \in DOMAIN sent :
                                    sent[i].request_id = sent[j].request_id => i = j
                            /\ sent[i].request_id \in DOMAIN after.role.append_entries_requests
                            /\ after.role.append_entries_requests[sent[i].request_id]
                                    = sent[i].message
                      /\ DOMAIN after.role.append_entries_requests
                            = {sent[i].request_id : i \in DOMAIN sent}
                      /\ after.role.next_index = [o \in cluster \ {p} |-> I + 2]
                      /\ after.role.match_index =
                            [o \in cluster |-> IF o = p THEN I + 1
                                               ELSE after.snapshot.last_included_index]]_vars

\* a Leader elected over a log that held an entry: its no-op entry is the second
ElectedOverEntry ==
    \E p \in cluster :
        /\ peers[p].role.kind = "Leader"
        /\ Len(peers[p].log) = 2
        /\ peers[p].log[2].command.kind = "NoOp"
        /\ peers[p].log[2].term = peers[p].current_term
        /\ peers[p].log[1].term < peers[p].current_term
        /\ peers[p].role.match_index[p] = 2

\* the step delivered to peer p a Granted RequestVoteReply of peer q for a request id
\* that p, a Candidate, still awaits
GrantedOutstanding(p, q) ==
    /\ peers[p].role.kind = "Candidate"
    /\ budget'.drops = budget.drops
    /\ \E i \in DOMAIN peers[q].buffered_peer_transmits :
        LET transmit == peers[q].buffered_peer_transmits[i]
        IN /\ transmit.peer_id = p
           /\ transmit.message.type = "RequestVoteReply"
           /\ transmit.message.vote = "Granted"
           /\ transmit.request_id \in peers[p].role.vote_request_ids
           /\ i = ReplyPosition(peers[q].buffered_peer_transmits, p, transmit.request_id)
           /\ peers'[q].buffered_peer_transmits
                  = RemoveAt(peers[q].buffered_peer_transmits, i)

\* the step delivered to Leader p a Granted RequestVoteReply of peer q
GrantedToLeader(p, q) ==
    /\ peers[p].role.kind = "Leader"
    /\ budget'.drops = budget.drops
    /\ \E i \in DOMAIN peers[q].buffered_peer_transmits :
        LET transmit == peers[q].buffered_peer_transmits[i]
        IN /\ transmit.peer_id = p
           /\ transmit.message.type = "RequestVoteReply"
           /\ transmit.message.vote = "Granted"
           /\ i = ReplyPosition(peers[q].buffered_peer_transmits, p, transmit.request_id)
           /\ peers'[q].buffered_peer_transmits
                  = RemoveAt(peers[q].buffered_peer_transmits, i)

\* C14: a Candidate becomes Leader exactly in the step in which a Granted reply for
\* a request id it still awaits brings votes_granted to floor(n/2) + 1; below that
\* it stays Candidate with the vote counted and the request id no longer awaited;
\* a Granted reply that reaches a Leader changes nothing.
ElectedByMajority ==
    [][\A p \in cluster :
            /\ peers[p].role.kind = "Candidate"
                => (peers'[p].role.kind = "Leader"
                        <=> \E q \in cluster \ {p} :
                                /\ GrantedOutstanding(p, q)
                                /\ peers[p].role.votes_granted + 1
                                        >= (Cardinality(cluster) \div 2) + 1)
            /\ \A q \in cluster \ {p} :
                    (/\ GrantedOutstanding(p, q)
                     /\ peers[p].role.votes_granted + 1 < (Cardinality(cluster) \div 2) + 1)
                        => /\ peers'[p].role.kind = "Candidate"
                           /\ peers'[p].role.votes_granted = peers[p].role.votes_granted + 1
                           /\ Cardinality(peers'[p].role.vote_request_ids)
                                = Cardinality(peers[p].role.vote_request_ids) - 1
            /\ \A q \in cluster \ {p} :
                    GrantedToLeader(p, q) => peers'[p] = peers[p]]_vars

\* the step is an election timeout of peer p whose storage write succeeded
ElectionTimedOut(p) ==
    /\ budget'.timeouts[p] < budget.timeouts[p]
    /\ peers'[p] # peers[p]

\* C15: an election timeout whose write succeeds, in a cluster of more than one
\* peer, leaves the peer in the next term, voted for itself, Candidate with one vote
\* and n - 1 fresh request ids, and appends to its queue one RequestVote per other
\* peer, in ascending peer id, carrying the new term and its last log position.
ElectionStarted ==
    [][\A p \in cluster :
            (ElectionTimedOut(p) /\ Cardinality(cluster) > 1)
                => LET after == peers'[p]
                       sent == Enqueued(p)
                   IN /\ after.current_term = peers[p].current_term + 1
                      /\ after.voted_for = p
                      /\ after.role.kind = "Candidate"
                      /\ after.role.votes_granted = 1
                      /\ after.role.vote_request_ids
                            = {sent[i].request_id : i \in DOMAIN sent}
                      /\ Cardinality(after.role.vote_request_ids) = Cardinality(cluster) - 1
                      /\ SubSeq(after.buffered_peer_transmits, 1,
                                Len(peers[p].buffered_peer_transmits))
                            = peers[p].buffered_peer_transmits
                      /\ Len(sent) = Cardinality(cluster) - 1
                      /\ {sent[i].peer_id : i \in DOMAIN sent} = cluster \ {p}
                      /\ \A i, j \in DOMAIN sent :
                            i < j => sent[i].peer_id < sent[j].peer_id
                      /\ \A i \in DOMAIN sent :
                            /\ sent[i].request_id >= peers[p].request_counter
                            /\ sent[i].request_id < after.request_counter
                            /\ sent[i].message.type = "RequestVoteRequest"
                            /\ sent[i].message.term = peers[p].current_term + 1
                            /\ sent[i].message.candidate_id = p
                            /\ sent[i].message.last_log_index
                                = (IF peers[p].log = <<>>
                                   THEN peers[p].snapshot.last_included_index
                                   ELSE peers[p].log[Len(peers[p].log)].index)
                            /\ sent[i].message.last_log_term
                                = (IF peers[p].log = <<>>
                                   THEN peers[p].snapshot.last_included_term
                                   ELSE peers[p].log[Len(peers[p].log)].term)
                      /\ after.log = peers[p].log
                      /\ after.commit_index = peers[p].commit_index]_vars

\* a Candidate whose log holds an entry awaits the answer to a RequestVote that
\* carries the position of that entry
CandidateWithEntry ==
    \E p \in cluster :
        /\ peers[p].role.kind = "Candidate"
        /\ peers[p].log # <<>>
        /\ \E i \in DOMAIN peers[p].buffered_peer_transmits :
            LET transmit == peers[p].buffered_peer_transmits[i]
            IN /\ transmit.message.type = "RequestVoteRequest"
               /\ transmit.request_id \in peers[p].role.vote_request_ids
               /\ transmit.message.term = peers[p].current_term
               /\ transmit.message.last_log_index = Len(peers[p].log)
               /\ transmit.message.last_log_term >= 1

AppendEntriesDelivered(q, i, p) ==
    /\ i \in DOMAIN peers[q].buffered_peer_transmits
    /\ peers[q].buffered_peer_transmits[i].message.type = "AppendEntriesRequest"
    /\ peers[q].buffered_peer_transmits[i].peer_id = p
    /\ i = RequestPosition(peers[q].buffered_peer_transmits,
                           peers[q].buffered_peer_transmits[i].request_id)
    /\ Len(peers'[q].buffered_peer_transmits) = Len(peers[q].buffered_peer_transmits) - 1
    /\ \A j \in DOMAIN peers'[q].buffered_peer_transmits :
            peers'[q].buffered_peer_transmits[j]
                = peers[q].buffered_peer_transmits[IF j < i THEN j ELSE j + 1]
    /\ budget'.drops = budget.drops

\* the log of peer p holds at the request's prev_log_index an entry of another term
ConflictingPrevious(p, request) ==
    /\ request.term >= peers[p].current_term
    /\ request.prev_log_index # 0
    /\ \E k \in DOMAIN peers[p].log :
            /\ peers[p].log[k].index = request.prev_log_index
            /\ peers[p].log[k].term # request.prev_log_term

\* C17: a peer that handles an AppendEntries of its term or a later one whose
\* prev_log_index names an entry of its log with another term than prev_log_term
\* holds afterwards no entry with index >= prev_log_index and none of the request's
\* entries, keeps current_term, role and commit_index, and replies
\* {term = current_term, success = false}.
ConflictTruncated ==
    [][\A p, q \in cluster : \A i \in 1..(MaxRequests + 1) :
            (/\ AppendEntriesDelivered(q, i, p)
             /\ ConflictingPrevious(p, peers[q].buffered_peer_transmits[i].message))
                => LET request == peers[q].buffered_peer_transmits[i].message
                       replies == peers'[p].buffered_peer_transmits
                   IN /\ \A k \in DOMAIN peers'[p].log :
                            /\ peers'[p].log[k].index < request.prev_log_index
                            /\ peers'[p].log[k] \in {peers[p].log[j] : j \in DOMAIN peers[p].log}
                      /\ peers'[p].current_term = peers[p].current_term
                      /\ peers'[p].role = peers[p].role
                      /\ peers'[p].commit_index = peers[p].commit_index
                      /\ Len(replies) = Len(peers[p].buffered_peer_transmits) + 1
                      /\ replies[Len(replies)].peer_id = q
                      /\ replies[Len(replies)].request_id
                            = peers[q].buffered_peer_transmits[i].request_id
                      /\ replies[Len(replies)].message.type = "AppendEntriesReply"
                      /\ replies[Len(replies)].message.term = peers[p].current_term
                      /\ replies[Len(replies)].message.success = FALSE]_vars

\* C18: on every storage implementation a truncate_log(d) that follows appends
\* leaves in the log exactly the stored entries with index < d, in their order.
TruncationExact ==
    [][\A p \in cluster : \A d \in 0..(MaxLog + 1) :
            TruncateLog(p, d)
                => peers'[p].log = SelectSeq(peers[p].log, LAMBDA entry : entry.index < d)]_vars

\* the peer that timed out is the only Leader, every log is the no-op entry of
\* term 1 at index 1, committed and applied everywhere
ElectionSettled ==
    /\ \E leader \in cluster :
            /\ budget.timeouts[leader] = 0
            /\ \A p \in cluster : peers[p].role.kind = "Leader" <=> p = leader
    /\ \A p \in cluster :
            /\ Len(peers[p].log) = 1
            /\ peers[p].log[1].index = 1
            /\ peers[p].log[1].term = 1
            /\ peers[p].log[1].command.kind = "NoOp"
            /\ peers[p].commit_index = 1
            /\ peers[p].last_applied = 1

\* C19: from a fresh cluster in which one peer's election times out, nothing is
\* dropped, every peer's transmits are delivered in the order they were enqueued,
\* the heartbeat fires after the leader's commit_index advanced and ApplyCommitted
\* is run afterwards, the run eventually reaches the settled state.
ElectionSettles == <>ElectionSettled

\* the plural action of the step names, in ids, a transmit of the kind that the
\* queue of peer p does not hold
NamesMissing(kind, p, ids) ==
    \E k \in DOMAIN ids : IsMissing(kind, p, ids[k])

\* C20: a Transmit or Drop action, singular or plural, that names a transmit the
\* named peer has not queued returns an error and leaves every peer as it was,
\* also when other ids of its list name queued transmits.
MissingLeavesState ==
    [][/\ \A kind \in {"request", "reply"} : \A p \in cluster :
            \A id \in NamedIds(kind, p) :
                MissingTransmit(kind, p, id) => (budget'.error /\ peers' = peers)
       /\ \A p \in cluster : \A ids \in IdLists(NamedIds("request", p)) :
            (/\ TransmitPeerRequests(p, ids) \/ DropPeerRequests(p, ids)
             /\ NamesMissing("request", p, ids))
                => (budget'.error /\ peers' = peers)
       /\ \A p \in cluster : \A ids \in IdLists(NamedIds("reply", p)) :
            (/\ TransmitPeerReplies(p, ids) \/ DropPeerReplies(p, ids)
             /\ NamesMissing("reply", p, ids))
                => (budget'.error /\ peers' = peers)]_vars

\* the peers after the transmits of the queue that ids names were handed to their
\* targets, one after another, in the order of ids
RECURSIVE DeliveredInOrder(_, _, _, _, _)
DeliveredInOrder(next_peers, p, kind, transmits, ids) ==
    IF ids = <<>> THEN next_peers
    ELSE LET named == {i \in DOMAIN transmits :
                        /\ OfKind(kind, transmits[i])
                        /\ NamedBy(kind, transmits[i]) = Head(ids)}
         IN IF named = {}
            THEN DeliveredInOrder(next_peers, p, kind, transmits, Tail(ids))
            ELSE LET transmit == transmits[CHOOSE i \in named : TRUE]
                 IN DeliveredInOrder(
                        [next_peers EXCEPT ![transmit.peer_id] =
                            receive_peer_message(@, p, transmit.request_id,
                                                 transmit.message, TRUE, TRUE)],
                        p, kind,
                        SelectSeq(transmits, LAMBDA other : other # transmit),
                        Tail(ids))

\* the peers after a plural transmit of peer p whose ids all name a transmit
ListOrderDelivery(kind, p, ids) ==
    LET transmits == peers[p].buffered_peer_transmits
        delivered == DeliveredInOrder(peers, p, kind, transmits, ids)
    IN [delivered EXCEPT ![p].buffered_peer_transmits =
            SelectSeq(transmits,
                      LAMBDA transmit :
                        ~(/\ OfKind(kind, transmit)
                          /\ \E k \in DOMAIN ids : ids[k] = NamedBy(kind, transmit)))]

\* the step is an action that returned no error and was neither a timeout nor a
\* drop
TransmitStep ==
    /\ ~budget'.error
    /\ budget'.timeouts = budget.timeouts
    /\ budget'.heartbeats = budget.heartbeats
    /\ budget'.drops = budget.drops

\* what names the transmits of the kind that left the queue of peer p in the step
GoneIds(kind, p) ==
    LET before == peers[p].buffered_peer_transmits
        after == peers'[p].buffered_peer_transmits
        gone == {before[i] : i \in DOMAIN before} \ {after[i] : i \in DOMAIN after}
    IN {NamedBy(kind, transmit) : transmit \in {t \in gone : OfKind(kind, t)}}

\* C21: a TransmitPeerRequests or TransmitPeerReplies whose ids all name a queued
\* transmit delivers the named transmits one after another in the order of its
\* list, whatever their order in the queue, and leaves the other transmits queued
\* in their order.
PluralInListOrder ==
    [][TransmitStep =>
        \A p \in {q \in cluster : Len(peers'[q].buffered_peer_transmits)
                                    < Len(peers[q].buffered_peer_transmits)} :
            /\ \A ids \in IdLists(GoneIds("request", p)) :
                (/\ ~NamesMissing("request", p, ids)
                 /\ {ids[k] : k \in DOMAIN ids} = GoneIds("request", p)
                 /\ TransmitPeerRequests(p, ids))
                    => peers' = ListOrderDelivery("request", p, ids)
            /\ \A ids \in IdLists(GoneIds("reply", p)) :
                (/\ ~NamesMissing("reply", p, ids)
                 /\ {ids[k] : k \in DOMAIN ids} = GoneIds("reply", p)
                 /\ TransmitPeerReplies(p, ids))
                    => peers' = ListOrderDelivery("reply", p, ids)]_vars

\* a peer has queued its reply to a later request of a leader before its reply to
\* an earlier one, five steps into the run: one action delivered both requests,
\* the later one first
LaterRequestFirst ==
    /\ budget.script = <<>>
    /\ budget.steps >= MaxSteps - 7
    /\ ~budget.error
    /\ \E p, q \in cluster :
        \E i, j \in DOMAIN peers[q].buffered_peer_transmits :
            /\ i < j
            /\ peers[q].buffered_peer_transmits[i].peer_id = p
            /\ peers[q].buffered_peer_transmits[j].peer_id = p
            /\ peers[q].buffered_peer_transmits[i].message.type = "AppendEntriesReply"
            /\ peers[q].buffered_peer_transmits[j].message.type = "AppendEntriesReply"
            /\ peers[q].buffered_peer_transmits[i].request_id
                    > peers[q].buffered_peer_transmits[j].request_id


\* C22 determinism of the simulation: the state after an action is fixed by the
\* state before it and the action, so two simulations that start equal and take
\* the same actions stay equal; in particular a SendCommand without a peer from
\* a client without a cached leader has one possible target
CommandTargets(client_id, command) ==
    {target \in cluster :
        ENABLED (/\ SendCommand(client_id, None, command)
                 /\ LET transmits == clients'[client_id].buffered_client_transmits
                    IN transmits[Len(transmits)].peer_id = target)}

SimulationDeterministic ==
    \A client_id \in ClientIds, command \in Commands :
        Cardinality(CommandTargets(client_id, command)) <= 1

\* the properties Simulation::check compares differ between the two peers
Differs(live, replay) ==
    \/ live.current_term # replay.current_term
    \/ live.voted_for # replay.voted_for
    \/ live.log # replay.log
    \/ live.snapshot # replay.snapshot
    \/ live.commit_index # replay.commit_index
    \/ live.last_applied # replay.last_applied
    \/ live.role # replay.role
    \/ live.machine # replay.machine
    \/ live.buffered_peer_transmits # replay.buffered_peer_transmits

\* the step is a Check with checks enabled: it moved the replay peers, or left
\* the peers and the clients alone
CheckStep ==
    /\ replay_peers # <<>>
    /\ \/ replay_peers' # replay_peers
       \/ peers' = peers /\ clients' = clients /\ budget' # budget

LeaderChangedFollowed ==
    [][\A client_id \in ClientIds, peer_id, new_leader_id \in cluster,
         request_id \in ReplyIds :
            ReceiveReply(client_id, peer_id, request_id,
                         CommandReplyErr("LeaderChanged", new_leader_id))
                => /\ clients'[client_id].leader = new_leader_id
                   /\ request_id \in DOMAIN clients[client_id].commands
                        => /\ request_id \in DOMAIN clients'[client_id].commands
                           /\ clients'[client_id].buffered_client_transmits =
                                Append(clients[client_id].buffered_client_transmits,
                                       ClientTransmit(client_id, new_leader_id, request_id,
                                            CommandRequest(
                                                clients[client_id].commands[request_id])))]_vars

\* C25 a Candidate that handles a Granted RequestVoteReply answering one of its
\* vote_request_ids finds the reply's term equal to its current_term: the
\* assert_eq! of RequestVoteReply::receive never fails
GrantedReplyOfCurrentTerm ==
    \A p \in cluster : peers[p].panic # "RequestVoteReply: assert_eq"

\* C26 no Leader handles an AppendEntries of its current_term that passes the
\* check of the previous entry: the unreachable!() of the Leader arm of
\* AppendEntriesRequest::receive is never executed
LeaderNeverAppendedTo ==
    \A p \in cluster : peers[p].panic # "AppendEntriesRequest: unreachable"

\* C27 every index above last_applied and up to commit_index has its entry in
\* the log of the peer, so that apply_committed never misses an entry
CommittedEntriesPresent ==
    \A p \in cluster :
        /\ peers[p].panic # "apply_committed: unreachable"
        /\ \A i \in (peers[p].last_applied + 1)..peers[p].commit_index :
            \E k \in DOMAIN peers[p].log : peers[p].log[k].index = i

\* the step delivered a RequestVote whose receiver wrote the term of the request
\* and then failed to write its vote
VoteWriteFailed ==
    \E p \in cluster : \E i \in DOMAIN peers[p].buffered_peer_transmits :
        /\ peers[p].buffered_peer_transmits[i].message.type = "RequestVoteRequest"
        /\ peers' = DeliverPeerTransmit(p, i, TRUE, FALSE)

\* the write of current_term and voted_for of the step failed, and no peer
\* panicked over it
StorageWriteFailed ==
    /\ budget'.storage_failures < budget.storage_failures
    /\ \A p \in cluster : peers'[p].panic = "none"
    /\ ~VoteWriteFailed

\* the queue of the peer after the step is its queue before it, with one transmit
\* delivered from it or with one RequestVoteReply that reports the storage error
\* behind it
QueueKept(p) ==
    LET before == peers[p].buffered_peer_transmits
        after == peers'[p].buffered_peer_transmits
    IN \/ after = before
       \/ \E i \in DOMAIN before : after = RemoveAt(before, i)
       \/ /\ Len(after) = Len(before) + 1
          /\ SubSeq(after, 1, Len(before)) = before
          /\ after[Len(after)].message.type = "RequestVoteReply"
          /\ after[Len(after)].message.vote = "NotGrantedDueToStorageError"

\* C28 a failed storage write of current_term and voted_for, on an election
\* timeout or in the handling of a RequestVote, a RequestVoteReply or an
\* AppendEntriesReply, leaves current_term, voted_for, the role and the queued
\* transmits of the peer as they were; a RequestVote adds its one reply
\* NotGrantedDueToStorageError
FailedWriteLeavesPeer ==
    [][StorageWriteFailed
        => /\ \A p \in cluster :
                /\ peers'[p].current_term = peers[p].current_term
                /\ peers'[p].voted_for = peers[p].voted_for
                /\ peers'[p].role = peers[p].role
                /\ QueueKept(p)
           /\ Cardinality({p \in cluster :
                    Len(peers'[p].buffered_peer_transmits)
                        < Len(peers[p].buffered_peer_transmits)}) <= 1]_vars

\* the request is a window of the log: its previous entry is the one at some
\* position of the log (the snapshot's last entry ahead of the first), and its
\* entries are the ones that follow it, of the indices that follow its index
IsWindow(peer, request) ==
    \E k \in 0..Len(peer.log) :
        /\ IF k = 0
           THEN /\ request.prev_log_index = peer.snapshot.last_included_index
                /\ request.prev_log_term = peer.snapshot.last_included_term
           ELSE /\ request.prev_log_index = peer.log[k].index
                /\ request.prev_log_term = peer.log[k].term
        /\ k + Len(request.entries) <= Len(peer.log)
        /\ request.entries = SubSeq(peer.log, k + 1, k + Len(request.entries))
        /\ \A j \in DOMAIN request.entries :
                request.entries[j].index = request.prev_log_index + j

\* C29 every AppendEntries a Leader enqueues is a window of its own log:
\* prev_log_term is the term of its entry at prev_log_index, and the entries are
\* its entries at the indices from prev_log_index + 1 on
LeaderSendsWindows ==
    [][\A p \in cluster :
            peers'[p].role.kind = "Leader"
                => \A i \in DOMAIN Enqueued(p) :
                        Enqueued(p)[i].message.type = "AppendEntriesRequest"
                            => IsWindow(peers'[p], Enqueued(p)[i].message)]_vars

\* C30 every AppendEntriesReply with success = true is enqueued with the
\* current_term its peer has once the request is handled, the term of the
\* request, also when the request raised the term of the peer
SuccessReplyOfCurrentTerm ==
    [][\A p \in cluster : \A i \in DOMAIN Enqueued(p) :
            (/\ Enqueued(p)[i].message.type = "AppendEntriesReply"
             /\ Enqueued(p)[i].message.success)
                => Enqueued(p)[i].message.term = peers'[p].current_term]_vars

\* the entries of the log with the index, in the order of the log
EntriesAt(log, index) == SelectSeq(log, LAMBDA entry : entry.index = index)

\* C31 (Log Matching): if the logs of two peers hold an entry of the same index
\* and term, the two logs hold the same entries at every index up to it
LogMatching ==
    \A p, q \in cluster :
        \A k \in DOMAIN peers[p].log, l \in DOMAIN peers[q].log :
            (/\ peers[p].log[k].index = peers[q].log[l].index
             /\ peers[p].log[k].term = peers[q].log[l].term)
                => \A index \in 1..peers[p].log[k].index :
                        EntriesAt(peers[p].log, index) = EntriesAt(peers[q].log, index)

\* the log holds an entry equal to the given one
Holds(log, entry) == \E k \in DOMAIN log : log[k] = entry

\* C32 (Leader Completeness): an entry that a Leader's advance of commit_index
\* covered is held, at its index, by every peer that is Leader in a later term
LeaderCompleteness ==
    \A p, q \in cluster :
        \A c \in peers[p].committed :
            (/\ peers[q].role.kind = "Leader"
             /\ peers[q].current_term > c.term)
                => Holds(peers[q].log, c.entry)

\* C33 (match_index monotone): over a step that leaves a peer Leader, its
\* match_index of no peer decreases
MatchIndexNeverDecreases ==
    [][\A p \in cluster :
            (peers[p].role.kind = "Leader" /\ peers'[p].role.kind = "Leader")
                => \A q \in DOMAIN peers[p].role.match_index :
                        peers'[p].role.match_index[q] >= peers[p].role.match_index[q]]_vars

\* C34 (no snapshot transfer needed): no peer ever executes one of the
\* unimplemented!() branches of the AppendEntriesReply handler
SnapshotBranchesUnreached ==
    \A p \in cluster :
        peers[p].panic \notin {"AppendEntriesReply: unimplemented (snapshots)",
                               "AppendEntriesReply: unimplemented (needs snapshot)"}

\* the peer has committed and applied every entry of its log
AllApplied(peer) ==
    /\ peer.commit_index = LastLogIndex(peer)
    /\ peer.last_applied = LastLogIndex(peer)

\* C35 (single peer): once the one peer of a cluster is Leader, its commit_index
\* eventually reaches the last entry of its log and ApplyCommitted applies up to it
SoloLeaderApplies ==
    (peers[SoloPeer].role.kind = "Leader") ~> AllApplied(peers[SoloPeer])

\* the transmit at position i of the queue of peer p is a RequestVoteReply of a
\* term above the current_term of the peer it answers
HigherTermVoteReply(p, i) ==
    LET transmit == peers[p].buffered_peer_transmits[i]
    IN /\ transmit.message.type = "RequestVoteReply"
       /\ transmit.message.term > peers[transmit.peer_id].current_term

\* C36 a RequestVoteReply of a higher term whose write succeeds leaves its
\* receiver in the reply's term, without a vote, Follower without a leader, and
\* with its queue less the RequestVote requests, the other transmits in order
HigherTermVoteReplyStepsDown ==
    [][\A p \in cluster : \A i \in DOMAIN peers[p].buffered_peer_transmits :
            (/\ HigherTermVoteReply(p, i)
             /\ peers' = DeliverPeerTransmit(p, i, TRUE, TRUE))
                => LET transmit == peers[p].buffered_peer_transmits[i]
                       receiver == transmit.peer_id
                   IN /\ peers'[receiver].current_term = transmit.message.term
                      /\ peers'[receiver].voted_for = None
                      /\ peers'[receiver].role = Follower(None)
                      /\ peers'[receiver].buffered_peer_transmits
                            = SelectSeq(peers[receiver].buffered_peer_transmits,
                                        LAMBDA queued :
                                            queued.message.type # "RequestVoteRequest")]_vars

\* a peer that stood as Candidate and never led is Follower without a leader
\* and without a vote, and its queue holds a transmit but no RequestVote request
SteppedDownCandidate ==
    \E p \in cluster :
        /\ peers[p].role = Follower(None)
        /\ peers[p].voted_for = None
        /\ peers[p].current_term > 1
        /\ peers[p].request_counter > 0
        /\ peers[p].log = <<>>
        /\ peers[p].storage = "Memory"
        /\ peers[p].buffered_peer_transmits # <<>>
        /\ \A k \in DOMAIN peers[p].buffered_peer_transmits :
                peers[p].buffered_peer_transmits[k].message.type # "RequestVoteRequest"

\* the transmit at position i of the queue of peer p is an AppendEntriesReply of
\* the current_term of the Leader it answers
SameTermAppendReply(p, i) ==
    LET transmit == peers[p].buffered_peer_transmits[i]
    IN /\ transmit.message.type = "AppendEntriesReply"
       /\ peers[transmit.peer_id].role.kind = "Leader"
       /\ transmit.message.term = peers[transmit.peer_id].current_term

\* C37 a Leader that handles an AppendEntriesReply of its term whose request id
\* it has not recorded changes nothing of itself; a recorded id is no longer
\* recorded after the reply to it
UnrecordedReplyIgnored ==
    [][\A p \in cluster : \A i \in DOMAIN peers[p].buffered_peer_transmits :
            (/\ SameTermAppendReply(p, i)
             /\ peers' = DeliverPeerTransmit(p, i, TRUE, TRUE))
                => LET transmit == peers[p].buffered_peer_transmits[i]
                       leader == transmit.peer_id
                   IN IF transmit.request_id
                            \in DOMAIN peers[leader].role.append_entries_requests
                      THEN peers'[leader].role.kind = "Leader"
                            => transmit.request_id
                                \notin DOMAIN peers'[leader].role.append_entries_requests
                      ELSE /\ peers'[leader].role = peers[leader].role
                           /\ peers'[leader].commit_index = peers[leader].commit_index
                           /\ peers'[leader].log = peers[leader].log
                           /\ peers'[leader].buffered_peer_transmits
                                = peers[leader].buffered_peer_transmits]_vars

\* a Leader of a second leadership (two rounds of RequestVote and two of
\* AppendEntries sent) has every request of this leadership still queued, its request of the first leadership to a peer of its term has been
\* delivered and so has the peer's reply, which left next_index as it was
StaleReplyIgnored ==
    \E l, q \in cluster :
        /\ l # q
        /\ peers[l].role.kind = "Leader"
        /\ Len(peers[l].log) = 2
        /\ peers[l].log[1].term < peers[l].current_term
        /\ peers[l].request_counter = 4 * (Cardinality(cluster) - 1)
        /\ peers[q].current_term = peers[l].current_term
        /\ peers[q].buffered_peer_transmits = <<>>
        /\ peers[l].role.next_index[q] = LogIndexNext(LastLogIndex(peers[l]))
        /\ \A r \in DOMAIN peers[l].role.append_entries_requests :
                \E k \in DOMAIN peers[l].buffered_peer_transmits :
                    peers[l].buffered_peer_transmits[k].request_id = r
        /\ \A k \in DOMAIN peers[l].buffered_peer_transmits :
                LET transmit == peers[l].buffered_peer_transmits[k]
                IN (transmit.peer_id = q /\ transmit.message.type = "AppendEntriesRequest")
                        => transmit.message.term = peers[l].current_term

\* the step is a heartbeat timeout
HeartbeatStep == budget'.heartbeats < budget.heartbeats

\* peer p, Leader, enqueued its heartbeats in the step and nothing else changed
HeartbeatOf(p) ==
    LET before == peers[p]
        after == peers'[p]
        added == SubSeq(after.buffered_peer_transmits,
                        Len(before.buffered_peer_transmits) + 1,
                        Len(after.buffered_peer_transmits))
        request == AppendEntriesRequest(before.current_term, p, LastLogIndex(before),
                                        LastLogTerm(before), <<>>, before.commit_index)
    IN /\ before.role.kind = "Leader"
       /\ Len(after.buffered_peer_transmits)
            = Len(before.buffered_peer_transmits) + Cardinality(cluster) - 1
       /\ SubSeq(after.buffered_peer_transmits, 1, Len(before.buffered_peer_transmits))
            = before.buffered_peer_transmits
       /\ {added[k].peer_id : k \in DOMAIN added} = cluster \ {p}
       /\ \A k \in DOMAIN added :
            /\ added[k].message = request
            /\ added[k].request_id \notin DOMAIN before.role.append_entries_requests
            /\ added[k].request_id >= before.request_counter
       /\ Cardinality(TransmitIds(added)) = Len(added)
       /\ DOMAIN after.role.append_entries_requests
            = DOMAIN before.role.append_entries_requests \cup TransmitIds(added)
       /\ \A r \in DOMAIN after.role.append_entries_requests :
            after.role.append_entries_requests[r]
                = IF r \in TransmitIds(added) THEN request
                  ELSE before.role.append_entries_requests[r]
       /\ after = [before EXCEPT
                    !.buffered_peer_transmits = after.buffered_peer_transmits,
                    !.role.append_entries_requests = after.role.append_entries_requests,
                    !.request_counter = after.request_counter]
       /\ \A q \in cluster \ {p} : peers'[q] = peers[q]

\* C38 a heartbeat timeout on a Leader enqueues one empty AppendEntries of its
\* term, last entry and commit_index per other peer, each under a fresh request
\* id that it records, and changes nothing else; on another peer it changes nothing
HeartbeatEnqueuesOnly ==
    [][HeartbeatStep
        => /\ clients' = clients
           /\ \/ peers' = peers /\ \E p \in cluster : peers[p].role.kind # "Leader"
              \/ \E p \in cluster : HeartbeatOf(p)]_vars

\* a Leader of a cluster of several peers holds, for every other peer, a queued
\* empty AppendEntries that it has recorded
HeartbeatsQueued ==
    \E l \in cluster :
        /\ peers[l].role.kind = "Leader"
        /\ Cardinality(cluster) > 1
        /\ \A q \in cluster \ {l} :
            \E k \in DOMAIN peers[l].buffered_peer_transmits :
                LET transmit == peers[l].buffered_peer_transmits[k]
                IN /\ transmit.peer_id = q
                   /\ transmit.message.type = "AppendEntriesRequest"
                   /\ transmit.message.entries = <<>>
                   /\ transmit.request_id \in DOMAIN peers[l].role.append_entries_requests

\* the step delivered the CommandRequest at position k of the queue of client c
\* to a Leader
CommandToLeader(c, k) ==
    /\ clients'[c].buffered_client_transmits
            = RemoveAt(clients[c].buffered_client_transmits, k)
    /\ clients[c].buffered_client_transmits[k].message.type = "CommandRequest"
    /\ peers[clients[c].buffered_client_transmits[k].peer_id].role.kind = "Leader"

\* the Leader appended the command of the transmit and enqueued its replication
CommandAccepted(transmit) ==
    LET p == transmit.peer_id
        before == peers[p]
        after == peers'[p]
        entry == LogEntry(LogIndexNext(LastLogIndex(before)), before.current_term,
                          transmit.message.command)
        request == AppendEntriesRequest(before.current_term, p, LastLogIndex(before),
                                        LastLogTerm(before), <<entry>>,
                                        before.commit_index)
        added == SubSeq(after.buffered_peer_transmits,
                        Len(before.buffered_peer_transmits) + 1,
                        Len(after.buffered_peer_transmits))
    IN /\ after.log = Append(before.log, entry)
       /\ Len(after.buffered_peer_transmits)
            = Len(before.buffered_peer_transmits) + Cardinality(cluster) - 1
       /\ SubSeq(after.buffered_peer_transmits, 1, Len(before.buffered_peer_transmits))
            = before.buffered_peer_transmits
       /\ {added[k].peer_id : k \in DOMAIN added} = cluster \ {p}
       /\ \A k \in DOMAIN added :
            /\ added[k].message = request
            /\ added[k].request_id \in DOMAIN after.role.append_entries_requests
            /\ after.role.append_entries_requests[added[k].request_id] = request
       /\ Cardinality(TransmitIds(added)) = Len(added)
       /\ after.buffered_client_transmits = before.buffered_client_transmits

\* the Leader enqueued the one reply StorageError and changed nothing else
CommandRefused(c, transmit) ==
    peers'[transmit.peer_id]
        = [peers[transmit.peer_id] EXCEPT !.buffered_client_transmits =
                Append(@, ClientTransmit(c, transmit.peer_id, transmit.request_id,
                                         CommandReplyErr("StorageError", None)))]

\* every CommandReply that the step enqueued at peer p is the error of a peer
\* that did not append: StorageError, or the answer of a peer that is not Leader
OnlyErrorsEnqueued(p) ==
    LET before == peers[p].buffered_client_transmits
        after == peers'[p].buffered_client_transmits
    IN Len(after) > Len(before)
        => /\ Len(after) = Len(before) + 1
           /\ peers'[p].log = peers[p].log
           /\ \/ after[Len(after)].message.error = "StorageError"
              \/ /\ after[Len(after)].message.error \in {"LeaderUnknown", "LeaderChanged"}
                 /\ peers[p].role.kind # "Leader"

\* C39 a Leader whose append succeeds appends the one entry of the command,
\* enqueues and records one AppendEntries of it per other peer and no reply to
\* the client; no step ever enqueues a reply for a command that was appended; a
\* Leader whose append fails enqueues the one reply StorageError and nothing else
LeaderAcceptsCommand ==
    [][/\ \A p \in cluster : OnlyErrorsEnqueued(p)
       /\ \A c \in ClientIds : \A k \in DOMAIN clients[c].buffered_client_transmits :
            CommandToLeader(c, k)
                => LET transmit == clients[c].buffered_client_transmits[k]
                   IN /\ \A q \in cluster \ {transmit.peer_id} : peers'[q] = peers[q]
                      /\ IF budget'.storage_failures < budget.storage_failures
                         THEN CommandRefused(c, transmit)
                         ELSE CommandAccepted(transmit)]_vars

\* a Leader holds the entry of a command and, for every other peer, has queued and
\* recorded the AppendEntries that carries it; no peer has queued a reply
CommandReplicating ==
    \E l \in cluster :
        /\ peers[l].role.kind = "Leader"
        /\ peers[l].log # <<>>
        /\ peers[l].log[Len(peers[l].log)].command.kind = "Insert"
        /\ \A q \in cluster \ {l} :
            \E k \in DOMAIN peers[l].buffered_peer_transmits :
                LET transmit == peers[l].buffered_peer_transmits[k]
                IN /\ transmit.peer_id = q
                   /\ transmit.message.type = "AppendEntriesRequest"
                   /\ transmit.message.entries = <<peers[l].log[Len(peers[l].log)]>>
                   /\ transmit.request_id \in DOMAIN peers[l].role.append_entries_requests
        /\ \A q \in cluster : peers[q].buffered_client_transmits = <<>>

\* the error that a peer that is not Leader answers a request with
Redirect(peer) ==
    IF peer.role.kind = "Follower" /\ peer.role.leader_id # None
    THEN [error |-> "LeaderChanged", new_leader_id |-> peer.role.leader_id]
    ELSE [error |-> "LeaderUnknown", new_leader_id |-> None]

\* the step delivered the request at position k of the queue of client c to a
\* peer that is not Leader: a command, or a query under Strong consistency
RequestToOther(c, k) ==
    LET transmit == clients[c].buffered_client_transmits[k]
    IN /\ clients'[c].buffered_client_transmits
            = RemoveAt(clients[c].buffered_client_transmits, k)
       /\ peers[transmit.peer_id].role.kind # "Leader"
       /\ \/ transmit.message.type = "CommandRequest"
          \/ transmit.message.type = "QueryRequest" /\ consistency = "Strong"

\* C40 a peer that is not Leader answers a command, and under Strong consistency
\* a query, with the one reply LeaderChanged of its leader if it is a Follower
\* that knows one and LeaderUnknown otherwise, and nothing else changes
OtherPeerRedirects ==
    [][\A c \in ClientIds : \A k \in DOMAIN clients[c].buffered_client_transmits :
            RequestToOther(c, k)
                => LET transmit == clients[c].buffered_client_transmits[k]
                       p == transmit.peer_id
                       reply == [type |-> IF transmit.message.type = "CommandRequest"
                                          THEN "CommandReply" ELSE "QueryReply",
                                 error |-> Redirect(peers[p]).error,
                                 new_leader_id |-> Redirect(peers[p]).new_leader_id]
                   IN peers' = [peers EXCEPT ![p].buffered_client_transmits =
                                    Append(@, ClientTransmit(c, p, transmit.request_id,
                                                             reply))]]_vars

\* under Strong consistency a Follower has answered a query with LeaderChanged
\* of the leader it knows
QueryRedirected ==
    /\ consistency = "Strong"
    /\ \E p \in cluster : \E k \in DOMAIN peers[p].buffered_client_transmits :
        LET reply == peers[p].buffered_client_transmits[k].message
        IN /\ reply.type = "QueryReply"
           /\ reply.error = "LeaderChanged"
           /\ reply.new_leader_id = peers[p].role.leader_id
           /\ peers[p].role.kind = "Follower"

====
